---- MODULE Spec2Model ----
(***************************************************************************)
(* Hydrogen: single-pass compiler (src/src/vm/parser.c) to 32 bit register *)
(* bytecode, the VM wide constants pool (src/src/vm.c), the trace recorder *)
(* (src/src/jit/compiler.c) and the linear scan register allocator         *)
(* (src/src/jit/asm/x64.c).                                                *)
(***************************************************************************)
EXTENDS Integers, Sequences, FiniteSets, TLC

VARIABLES
    fns,      \* vm->fns of the package being compiled: sequence of [ins]
    consts,   \* vm->consts: the constants pool, [base, tail] (see const_at)
    psr,      \* Parser: [locals, scopes, err]
    ctl,      \* the parse_* activations that are waiting on a block
    phase,    \* "idle" (no parse running), "parsing", "done", "jit", "jmp"
    obs,      \* history of what the last handler did
    trace,    \* jit Trace: [ir, ir_count, last_modified, const_loads, ...]
    budget,   \* statements / bytecodes the environment may still supply
    run       \* vm_run: [core, dispatch, loop_iter_count, recording, ...]

vars == <<fns, consts, psr, ctl, phase, obs, trace, budget, run>>

----------------------------------------------------------------------------
(* Widths *)

U8  == 256
U16 == 65536
U24 == 16777216

\* Conversion of a non-negative or negative int to an unsigned of width w.
Trunc(x, w) == x % w


----------------------------------------------------------------------------
(* Doubles.  A double is a pair <<n, d>>: the rational n/d in lowest terms *)
(* with d > 0, or one of the special values below.  Two doubles have the   *)
(* same 64 bit pattern exactly when the pairs are equal, which is what the *)
(* n2v union conversion and the == on uint64_t in vm_add_num compare.      *)

DNaN     == <<0, 0>>
DInf     == <<1, 0>>
DNegInf  == <<-1, 0>>
DNegZero == <<0, -1>>
Num(i)   == <<i, 1>>

d_isnan(x)  == x = DNaN
d_isinf(x)  == x[2] = 0 /\ x[1] # 0
d_iszero(x) == x[1] = 0 /\ x[2] # 0
d_sign(x)   == IF x[2] = 0 THEN x[1]
               ELSE IF x[1] = 0 THEN x[2]
               ELSE IF x[1] > 0 THEN 1 ELSE -1

Abs(i) == IF i < 0 THEN -i ELSE i

RECURSIVE Gcd(_, _)
Gcd(a, b) == IF b = 0 THEN a ELSE Gcd(b, a % b)

\* n/d with d > 0 and n # 0, in lowest terms
d_norm(n, d) == LET g == Gcd(Abs(n), d) IN <<n \div g, d \div g>>

d_zero(s) == IF s < 0 THEN DNegZero ELSE Num(0)
d_inf(s)  == IF s < 0 THEN DNegInf ELSE DInf

d_neg(x) ==
    IF d_isnan(x) THEN DNaN
    ELSE IF d_isinf(x) THEN d_inf(-x[1])
    ELSE IF d_iszero(x) THEN d_zero(-x[2])
    ELSE <<-x[1], x[2]>>

d_add(x, y) ==
    IF d_isnan(x) \/ d_isnan(y) THEN DNaN
    ELSE IF d_isinf(x) /\ d_isinf(y) THEN (IF x = y THEN x ELSE DNaN)
    ELSE IF d_isinf(x) THEN x
    ELSE IF d_isinf(y) THEN y
    ELSE IF d_iszero(x) /\ d_iszero(y)
         THEN (IF x = DNegZero /\ y = DNegZero THEN DNegZero ELSE Num(0))
    ELSE IF d_iszero(x) THEN y
    ELSE IF d_iszero(y) THEN x
    ELSE LET n == x[1] * y[2] + y[1] * x[2]
         IN  IF n = 0 THEN Num(0) ELSE d_norm(n, x[2] * y[2])

d_sub(x, y) == d_add(x, d_neg(y))

d_mul(x, y) ==
    LET s == d_sign(x) * d_sign(y) IN
    IF d_isnan(x) \/ d_isnan(y) THEN DNaN
    ELSE IF (d_isinf(x) /\ d_iszero(y)) \/ (d_iszero(x) /\ d_isinf(y)) THEN DNaN
    ELSE IF d_isinf(x) \/ d_isinf(y) THEN d_inf(s)
    ELSE IF d_iszero(x) \/ d_iszero(y) THEN d_zero(s)
    ELSE d_norm(x[1] * y[1], x[2] * y[2])

d_div(x, y) ==
    LET s == d_sign(x) * d_sign(y) IN
    IF d_isnan(x) \/ d_isnan(y) THEN DNaN
    ELSE IF (d_isinf(x) /\ d_isinf(y)) \/ (d_iszero(x) /\ d_iszero(y)) THEN DNaN
    ELSE IF d_isinf(x) \/ d_iszero(y) THEN d_inf(s)
    ELSE IF d_isinf(y) \/ d_iszero(x) THEN d_zero(s)
    ELSE d_norm(s * Abs(x[1]) * y[2], x[2] * Abs(y[1]))

\* numerator / denominator of a finite double, zeros of either sign as 0/1
d_n(x) == IF d_iszero(x) THEN 0 ELSE x[1]
d_d(x) == IF d_iszero(x) THEN 1 ELSE x[2]

\* the C comparisons on doubles (IEEE 754: every comparison with NaN is
\* false except !=, and the two zeros compare equal)
d_eq(x, y) == /\ ~d_isnan(x) /\ ~d_isnan(y)
              /\ \/ x = y
                 \/ d_iszero(x) /\ d_iszero(y)
d_lt(x, y) == /\ ~d_isnan(x) /\ ~d_isnan(y)
              /\ IF d_isinf(x) THEN x = DNegInf /\ y # DNegInf
                 ELSE IF d_isinf(y) THEN y = DInf
                 ELSE d_n(x) * d_d(y) < d_n(y) * d_d(x)
d_le(x, y) == d_lt(x, y) \/ d_eq(x, y)
d_gt(x, y) == d_lt(y, x)
d_ge(x, y) == d_le(y, x)

----------------------------------------------------------------------------
(* Bytecode (src/src/vm/bytecode.h).  An Instruction is a uint32_t of four *)
(* bytes; it is kept as the tuple <<opcode, arg1, arg2, arg3>> of its      *)
(* bytes, lowest byte first.                                               *)

OP_MOV    == 0
OP_SET_N  == 1
OP_SET_P  == 2
OP_SET_F  == 3
OP_ADD_LL == 4
OP_ADD_LN == 5
OP_SUB_LL == 6
OP_SUB_LN == 7
OP_SUB_NL == 8
OP_MUL_LL == 9
OP_MUL_LN == 10
OP_DIV_LL == 11
OP_DIV_LN == 12
OP_DIV_NL == 13
OP_NEG    == 14
OP_EQ_LL  == 15
OP_EQ_LN  == 16
OP_EQ_LP  == 17
OP_NEQ_LL == 18
OP_NEQ_LN == 19
OP_NEQ_LP == 20
OP_LT_LL  == 21
OP_LT_LN  == 22
OP_LE_LL  == 23
OP_LE_LN  == 24
OP_GT_LL  == 25
OP_GT_LN  == 26
OP_GE_LL  == 27
OP_GE_LN  == 28
OP_JMP    == 29
OP_CALL   == 30
OP_RET    == 31

JMP_BIAS == 8388608

PRIM_FALSE == 0
PRIM_TRUE  == 1
PRIM_NIL   == 2

ins_new3(op, arg1, arg2, arg3) ==
    <<op, Trunc(arg1, U8), Trunc(arg2, U8), Trunc(arg3, U8)>>
ins_new2(op, arg1, arg2) ==
    <<op, Trunc(arg1, U8), Trunc(arg2, U16) % U8, Trunc(arg2, U16) \div U8>>
\* arg << 8 in 32 bits keeps the low 24 bits of arg
ins_new1(op, arg) ==
    LET a == Trunc(arg, U24) IN <<op, a % U8, (a \div U8) % U8, a \div U16>>

ins_op(ins)   == ins[1]
ins_arg16(ins) == ins[3] + U8 * ins[4]
ins_arg24(ins) == ins[2] + U8 * ins[3] + U16 * ins[4]
ins_set_op(ins, opcode)  == <<opcode, ins[2], ins[3], ins[4]>>
ins_set_arg1(ins, arg1)  == <<ins[1], Trunc(arg1, U8), ins[3], ins[4]>>
ins_set_arg24(ins, arg24) == ins_new1(ins[1], arg24)

----------------------------------------------------------------------------
(* The VM (src/src/vm.c).  The pool is kept as [base, tail]: its first     *)
(* `base` entries are the numbers PreludeFirst, PreludeFirst + 1, ... left *)
(* there by an earlier compilation on the same runtime, the entries after  *)
(* them are listed in tail.  Indices are the C indices, from 0.            *)

PreludeFirst == 1000

const_at(c, i)  == IF i < c.base THEN Num(PreludeFirst + i)
                   ELSE c.tail[i - c.base + 1]
consts_count(c) == c.base + Len(c.tail)

\* the scan of vm_add_num: the indices whose entry has the bits of num.  Among
\* the first `base` entries that is the index num - PreludeFirst, if any
const_scan(c, num) ==
    (IF num[2] = 1 /\ num[1] >= PreludeFirst /\ num[1] < PreludeFirst + c.base
     THEN {num[1] - PreludeFirst} ELSE {})
    \cup {c.base + i - 1 : i \in {k \in 1 .. Len(c.tail) : c.tail[k] = num}}

SetMin(S) == CHOOSE x \in S : \A y \in S : x <= y
SetMax(S) == CHOOSE x \in S : \A y \in S : x >= y

\* an interning that appends without scanning the pool
vm_add_num_no_scan(c, num) ==
    [idx |-> consts_count(c), consts |-> [c EXCEPT !.tail = Append(@, num)]]

\* vm_add_num: [idx |-> returned index, consts |-> the pool afterwards]
vm_add_num(c, num) ==
    LET hit == const_scan(c, num) IN
    IF hit # {} THEN [idx |-> SetMin(hit), consts |-> c]
    ELSE [idx |-> consts_count(c),
          consts |-> [c EXCEPT !.tail = Append(@, num)]]

\* vm_new_fn: a function with no bytecode; its index is the old fns_count
vm_new_fn(m) == [m EXCEPT !.fns = Append(@, [ins |-> <<>>])]

----------------------------------------------------------------------------
(* The parser (src/src/vm/parser.c).  Its operators work on a machine      *)
(* record m: the VM's fns and consts, the Parser's locals and scope stack  *)
(* (innermost scope last), the lexer's remaining tokens, the Node a call   *)
(* hands back in n, and err.  err_trigger longjmps out of the parser, so   *)
(* every operator leaves a machine whose err is set untouched.             *)

NoErr == "none"

cur_scope(m) == m.scopes[Len(m.scopes)]
psr_fn(m)    == m.fns[cur_scope(m).fn + 1]
ins_count(m) == Len(psr_fn(m).ins)
ins_at(m, idx) == psr_fn(m).ins[idx + 1]

\* an error that is made and dropped: err_trigger is never reached
psr_trigger_err_dropped(m, msg) == m

psr_trigger_err(m, msg) == IF m.err # NoErr THEN m ELSE [m EXCEPT !.err = msg]

\* fn_emit on psr_fn: the new instruction's index is the old ins_count(m)
fn_emit(m, ins) ==
    IF m.err # NoErr THEN m
    ELSE [m EXCEPT !.fns[cur_scope(m).fn + 1].ins = Append(@, ins)]

set_ins(m, idx, ins) ==
    [m EXCEPT !.fns[cur_scope(m).fn + 1].ins[idx + 1] = ins]

set_next_slot(m, v) == [m EXCEPT !.scopes[Len(m.scopes)].next_slot = v]

psr_new_local(m, name) ==
    IF m.err # NoErr THEN m ELSE [m EXCEPT !.locals = Append(@, name)]

(* Jump lists *)

jmp_follow(m, jmp_idx) ==
    IF jmp_idx < 0 THEN jmp_idx
    ELSE jmp_idx + (ins_arg24(ins_at(m, jmp_idx)) - JMP_BIAS + 1)

\* an offset relative to the JMP itself, not to the instruction after it
jmp_set_target_from_jmp(m, jmp_idx, target_idx) ==
    LET offset == target_idx - jmp_idx + JMP_BIAS
    IN  set_ins(m, jmp_idx, ins_set_arg24(ins_at(m, jmp_idx), offset))

jmp_set_target(m, jmp_idx, target_idx) ==
    LET offset == target_idx - jmp_idx + JMP_BIAS - 1
    IN  set_ins(m, jmp_idx, ins_set_arg24(ins_at(m, jmp_idx), offset))

RECURSIVE jmp_list_patch(_, _, _)
jmp_list_patch(m, head_idx, target_idx) ==
    IF m.err # NoErr \/ head_idx < 0 THEN m
    ELSE IF jmp_follow(m, head_idx) = -1
         THEN jmp_set_target(m, head_idx, target_idx)
    ELSE LET next_idx == jmp_follow(m, head_idx)
         IN  jmp_list_patch(jmp_set_target(m, head_idx, target_idx),
                            next_idx, target_idx)

\* what a call hands back: the Node it changed in n, its return value in r
ret(m, node, r) == IF m.err # NoErr THEN m ELSE [m EXCEPT !.n = node, !.r = r]

\* the rest of a function runs only when no error was triggered before it
Bind(m, F(_)) == IF m.err # NoErr THEN m ELSE F(m)

\* jmp_list_append: the new head is handed back in r
jmp_list_append(m, head, to_add) ==
    IF head = -1 THEN ret(jmp_set_target(m, to_add, -1), m.n, to_add)
    ELSE ret(jmp_set_target(m, to_add, head), m.n, to_add)

RECURSIVE jmp_list_last(_, _)
jmp_list_last(m, last) ==
    IF jmp_follow(m, last) # -1 THEN jmp_list_last(m, jmp_follow(m, last))
    ELSE last

\* a merge that keeps the older list and drops the more recent one
jmp_list_merge_keep_left(m, left, right) ==
    IF left = -1 THEN ret(m, m.n, right) ELSE ret(m, m.n, left)

\* jmp_list_merge: the head of the merged list is handed back in r
jmp_list_merge(m, left, right) ==
    IF right = -1 THEN ret(m, m.n, left)
    ELSE IF left = -1 THEN ret(m, m.n, right)
    ELSE ret(jmp_set_target(m, jmp_list_last(m, right), left), m.n, right)

----------------------------------------------------------------------------
(* Tokens (src/src/vm/lexer.h).  Single character tokens are their ASCII   *)
(* code.  A token is [type, num, ident]; the lexer hands the parser one    *)
(* token at a time, m.toks is what is left of the current statement.       *)

TK_CONCAT     == 256
TK_ADD_ASSIGN == 257
TK_SUB_ASSIGN == 258
TK_MUL_ASSIGN == 259
TK_DIV_ASSIGN == 260
TK_MOD_ASSIGN == 261
TK_EQ         == 262
TK_NEQ        == 263
TK_LE         == 264
TK_GE         == 265
TK_AND        == 266
TK_OR         == 267
TK_LET        == 268
TK_IF         == 269
TK_ELSE       == 270
TK_ELSEIF     == 271
TK_LOOP       == 272
TK_WHILE      == 273
TK_FOR        == 274
TK_FN         == 275
TK_IDENT      == 276
TK_NUM        == 277
TK_FALSE      == 278
TK_TRUE       == 279
TK_NIL        == 280
TK_EOF        == 281

CH_NOT    == 33
CH_LPAREN == 40
CH_RPAREN == 41
CH_MUL    == 42
CH_ADD    == 43
CH_SUB    == 45
CH_DIV    == 47
CH_LT     == 60
CH_ASSIGN == 61
CH_GT     == 62

Tk(t)         == [type |-> t, num |-> Num(0), ident |-> 0]
TkNum(v)      == [type |-> TK_NUM, num |-> v, ident |-> 0]
TkIdent(name) == [type |-> TK_IDENT, num |-> Num(0), ident |-> name]

cur_tk(m)   == IF m.toks = <<>> THEN Tk(TK_EOF) ELSE Head(m.toks)
lex_next(m) == IF m.err # NoErr \/ m.toks = <<>> THEN m
               ELSE [m EXCEPT !.toks = Tail(@)]
\* the token after the current one (lex_save, lex_next, read, lex_restore)
lex_peek(m) == IF Len(m.toks) < 2 THEN Tk(TK_EOF) ELSE m.toks[2]
lex_expect(m, expected) ==
    IF m.err # NoErr \/ cur_tk(m).type = expected THEN m
    ELSE psr_trigger_err(m, "unexpected token")

----------------------------------------------------------------------------
(* Expression nodes.  Node is a tagged union in C; every member is kept as *)
(* a field here and node_slot reads `slot` the way the union lays it over  *)
(* the other members (the low byte on the little endian targets).          *)

NODE_NUM       == 0
NODE_LOCAL     == 1
NODE_PRIM      == 2
NODE_CONST     == 3
NODE_RELOC     == 4
NODE_NON_RELOC == 5
NODE_JMP       == 6

PREC_NONE    == 0
PREC_OR      == 1
PREC_AND     == 2
PREC_EQ      == 3
PREC_ORD     == 4
PREC_CONCAT  == 5
PREC_ADD     == 6
PREC_MUL     == 7
PREC_UNARY   == 8

USHRT_MAX == 65535
MAX_LOCALS == 255

NodeOf(t) == [type |-> t, num |-> Num(0), slot |-> 0, prim |-> 0,
              const_idx |-> 0, reloc_idx |-> 0,
              true_list |-> -1, false_list |-> -1]
NumNode(v)      == [NodeOf(NODE_NUM) EXCEPT !.num = v]
LocalNode(s)    == [NodeOf(NODE_LOCAL) EXCEPT !.slot = s]
PrimNode(p)     == [NodeOf(NODE_PRIM) EXCEPT !.prim = p]
ConstNode(i)    == [NodeOf(NODE_CONST) EXCEPT !.const_idx = i]
RelocNode(i)    == [NodeOf(NODE_RELOC) EXCEPT !.reloc_idx = i]
NonRelocNode(s) == [NodeOf(NODE_NON_RELOC) EXCEPT !.slot = s]
JmpNode(t, f)   == [NodeOf(NODE_JMP) EXCEPT !.true_list = t, !.false_list = f]

node_slot(node) ==
    CASE node.type = NODE_CONST -> node.const_idx % U8
      [] node.type = NODE_PRIM  -> node.prim % U8
      [] node.type = NODE_RELOC -> node.reloc_idx % U8
      [] node.type = NODE_JMP   -> node.true_list % U8
      [] OTHER -> node.slot

AssertFail == "assertion failed"
\* the assertion of expr_free_node
AssertSlot == "assertion failed: node->slot == psr->scope->next_slot"

binop_prec(binop) ==
    CASE binop = TK_OR -> PREC_OR
      [] binop = TK_AND -> PREC_AND
      [] binop \in {TK_EQ, TK_NEQ} -> PREC_EQ
      [] binop \in {CH_GT, CH_LT, TK_GE, TK_LE} -> PREC_ORD
      [] binop = TK_CONCAT -> PREC_CONCAT
      [] binop \in {CH_ADD, CH_SUB} -> PREC_ADD
      [] binop \in {CH_MUL, CH_DIV} -> PREC_MUL
      [] OTHER -> -1

unop_prec(unop) == IF unop \in {CH_SUB, CH_NOT} THEN PREC_UNARY ELSE -1

binop_is_arith(binop) == binop \in {CH_ADD, CH_SUB, CH_MUL, CH_DIV}
binop_is_rel(binop) == binop \in {TK_EQ, TK_NEQ, CH_GT, TK_GE, CH_LT, TK_LE}
binop_is_ord(binop) == binop \in {CH_GT, TK_GE, CH_LT, TK_LE}
binop_is_commutative(binop) == binop \in {CH_ADD, CH_MUL, TK_EQ, TK_NEQ}
node_is_const(node) == node.type \in {NODE_NUM, NODE_PRIM, NODE_CONST}
B2I(b) == IF b THEN 1 ELSE 0

binop_invert_rel(relop) ==
    CASE relop = TK_EQ -> TK_NEQ
      [] relop = TK_NEQ -> TK_EQ
      [] relop = CH_GT -> TK_LE
      [] relop = TK_GE -> CH_LT
      [] relop = CH_LT -> TK_GE
      [] relop = TK_LE -> CH_GT

\* a condition left as it is
relop_invert_kept(relop) == relop

relop_invert(relop) ==
    CASE relop = OP_EQ_LL -> OP_NEQ_LL
      [] relop = OP_EQ_LN -> OP_NEQ_LN
      [] relop = OP_EQ_LP -> OP_NEQ_LP
      [] relop = OP_NEQ_LL -> OP_EQ_LL
      [] relop = OP_NEQ_LN -> OP_EQ_LN
      [] relop = OP_NEQ_LP -> OP_EQ_LP
      [] relop = OP_LT_LL -> OP_GE_LL
      [] relop = OP_LT_LN -> OP_GE_LN
      [] relop = OP_LE_LL -> OP_GT_LL
      [] relop = OP_LE_LN -> OP_GT_LN
      [] relop = OP_GT_LL -> OP_LE_LL
      [] relop = OP_GT_LN -> OP_LE_LN
      [] relop = OP_GE_LL -> OP_LT_LL
      [] relop = OP_GE_LN -> OP_LT_LN
      [] OTHER -> -1

binop_opcode(binop) ==
    CASE binop = CH_ADD -> OP_ADD_LL
      [] binop = CH_SUB -> OP_SUB_LL
      [] binop = CH_MUL -> OP_MUL_LL
      [] binop = CH_DIV -> OP_DIV_LL
      [] binop = TK_EQ -> OP_EQ_LL
      [] binop = TK_NEQ -> OP_NEQ_LL
      [] binop = CH_GT -> OP_GT_LL
      [] binop = TK_GE -> OP_GE_LL
      [] binop = CH_LT -> OP_LT_LL
      [] binop = TK_LE -> OP_LE_LL

----------------------------------------------------------------------------
(* Operands to slots.  An operator that changes the Node it is given hands *)
(* the changed Node back in m.n, and what the C function returns in m.r.   *)

\* the condition before a listed JMP is inverted in place
invert_cond(m, jmp_idx) ==
    IF relop_invert(ins_op(ins_at(m, jmp_idx - 1))) = -1
    THEN psr_trigger_err(m, AssertFail)
    ELSE set_ins(m, jmp_idx - 1,
                 ins_set_op(ins_at(m, jmp_idx - 1),
                            relop_invert(ins_op(ins_at(m, jmp_idx - 1)))))

jmp_ensure_true_falls_through(m, node) ==
    IF node.true_list > node.false_list
    THEN Bind(invert_cond(m, node.true_list), LAMBDA m1 :
         Bind(jmp_list_append(m1, node.false_list, node.true_list), LAMBDA m2 :
              ret(m2, [node EXCEPT
                           !.true_list = jmp_follow(m1, node.true_list),
                           !.false_list = m2.r], 0)))
    ELSE ret(m, node, 0)

jmp_ensure_false_falls_through(m, node) ==
    IF node.false_list > node.true_list
    THEN Bind(invert_cond(m, node.false_list), LAMBDA m1 :
         Bind(jmp_list_append(m1, node.true_list, node.false_list), LAMBDA m2 :
              ret(m2, [node EXCEPT
                           !.false_list = jmp_follow(m1, node.false_list),
                           !.true_list = m2.r], 0)))
    ELSE ret(m, node, 0)

expr_free_node(m, node) ==
    IF m.err # NoErr THEN m
    ELSE IF node.type = NODE_NON_RELOC
            /\ node.slot >= Len(m.locals) - cur_scope(m).first_local
    THEN IF node.slot = cur_scope(m).next_slot - 1
         THEN set_next_slot(m, cur_scope(m).next_slot - 1)
         ELSE psr_trigger_err(set_next_slot(m, cur_scope(m).next_slot - 1),
                              AssertSlot)
    ELSE m

\* NODE_NUM to NODE_CONST: the pool after vm_add_num, and the index it gave
discharge_num(m, add) ==
    ret([m EXCEPT !.consts = add.consts], ConstNode(Trunc(add.idx, U16)), 0)

\* a discharge that interns the number of a NODE_CONST once more
expr_discharge_again(m, node) ==
    IF node.type \in {NODE_NUM, NODE_CONST}
    THEN discharge_num(m, vm_add_num(m.consts, node.num))
    ELSE ret(m, node, 0)

expr_discharge(m, node) ==
    IF node.type = NODE_NUM
    THEN IF consts_count(m.consts) >= USHRT_MAX
         THEN [psr_trigger_err(m, "too many constants") EXCEPT !.n = node]
         ELSE discharge_num(m, vm_add_num(m.consts, node.num))
    ELSE IF node.type = NODE_LOCAL
    THEN ret(m, NonRelocNode(node.slot), 0)
    ELSE ret(m, node, 0)

\* the NODE_JMP case of expr_to_slot
emit_bool(m, dest, node) ==
    Bind(jmp_ensure_true_falls_through(m, node), LAMBDA m1 :
         jmp_list_patch(
             jmp_list_patch(
                 fn_emit(fn_emit(fn_emit(m1,
                     ins_new2(OP_SET_P, dest, PRIM_TRUE)),
                     ins_new1(OP_JMP, JMP_BIAS + 1)),
                     ins_new2(OP_SET_P, dest, PRIM_FALSE)),
                 m1.n.true_list, ins_count(m1)),
             m1.n.false_list, ins_count(m1) + 2))

\* the switch of expr_to_slot
emit_to_slot(m, dest, nd) ==
    CASE nd.type = NODE_PRIM -> fn_emit(m, ins_new2(OP_SET_P, dest, nd.prim))
      [] nd.type = NODE_NON_RELOC ->
           IF nd.slot # dest THEN fn_emit(m, ins_new2(OP_MOV, dest, nd.slot))
           ELSE m
      [] nd.type = NODE_RELOC ->
           set_ins(m, nd.reloc_idx, ins_set_arg1(ins_at(m, nd.reloc_idx), dest))
      [] nd.type = NODE_CONST ->
           fn_emit(m, ins_new2(OP_SET_N, dest, nd.const_idx))
      [] nd.type = NODE_JMP -> emit_bool(m, dest, nd)
      [] OTHER -> psr_trigger_err(m, AssertFail)

expr_to_slot(m, dest, node) ==
    Bind(expr_discharge(m, node), LAMBDA m1 :
    Bind(emit_to_slot(m1, dest, m1.n), LAMBDA m2 :
         ret(m2, NonRelocNode(dest), 0)))

\* expr_to_next_slot from the overflow check on; discharged is the Node
to_next_slot(m, slot, discharged) ==
    IF slot >= MAX_LOCALS
    THEN psr_trigger_err(m, "too many locals in function")
    ELSE Bind(expr_to_slot(set_next_slot(m, cur_scope(m).next_slot + 1),
                           slot, discharged),
              LAMBDA m1 : ret(m1, m1.n, slot))

expr_to_next_slot(m, node) ==
    Bind(expr_discharge(m, node), LAMBDA m1 :
    Bind(expr_free_node(m1, m1.n), LAMBDA m2 :
         to_next_slot(m2, Trunc(cur_scope(m2).next_slot, U8), m1.n)))

expr_to_any_slot(m, node) ==
    Bind(expr_discharge(m, node), LAMBDA m1 :
         IF m1.n.type = NODE_NON_RELOC THEN ret(m1, m1.n, m1.n.slot)
         ELSE expr_to_next_slot(m1, m1.n))

\* the NODE_CONST case has no return after its if: an index of 256 or more
\* falls through to the NODE_NON_RELOC case, which reads the union's slot
expr_to_ins_arg(m, node) ==
    Bind(expr_discharge(m, node), LAMBDA m1 :
         CASE m1.n.type = NODE_PRIM -> ret(m1, m1.n, Trunc(m1.n.prim, U8))
           [] m1.n.type = NODE_CONST ->
                IF m1.n.const_idx < 256 THEN ret(m1, m1.n, m1.n.const_idx)
                ELSE ret(m1, m1.n, node_slot(m1.n))
           [] m1.n.type = NODE_NON_RELOC -> ret(m1, m1.n, m1.n.slot)
           [] OTHER -> expr_to_next_slot(m1, m1.n))

\* a condition and the JMP after it, whose target is set to -1: what
\* expr_to_jmp and expr_emit_rel end with
emit_cond_jmp(m, condition) ==
    Bind(fn_emit(fn_emit(m, condition), ins_new1(OP_JMP, 0)), LAMBDA m1 :
         ret(jmp_set_target(m1, ins_count(m1) - 1, -1),
             JmpNode(ins_count(m1) - 1, -1), 0))

\* the NODE_NON_RELOC case of expr_to_jmp, which the cases before it fall into
jmp_on_truth(m) ==
    IF m.n.type = NODE_NON_RELOC
    THEN emit_cond_jmp(m, ins_new2(OP_EQ_LP, m.n.slot, PRIM_TRUE))
    ELSE m

expr_to_jmp(m, node) ==
    Bind(expr_discharge(m, node), LAMBDA m1 :
         IF m1.n.type \in {NODE_RELOC, NODE_PRIM, NODE_CONST}
         THEN Bind(expr_to_next_slot(m1, m1.n), jmp_on_truth)
         ELSE jmp_on_truth(m1))

----------------------------------------------------------------------------
(* Operators *)

\* expr_fold_arith's switch: the folded number
fold_arith(binop, l, r) ==
    CASE binop = CH_ADD -> d_add(l, r)
      [] binop = CH_SUB -> d_sub(l, r)
      [] binop = CH_MUL -> d_mul(l, r)
      [] binop = CH_DIV -> d_div(l, r)

\* a fold that gives up on every pair of operands
expr_fold_arith_never(binop, left, right) == FALSE

expr_fold_arith(binop, left, right) ==
    left.type = NODE_NUM /\ right.type = NODE_NUM

\* the temporaries of two operands are freed from the top down
free_operands(m, l, r, larg, rarg) ==
    IF larg > rarg THEN expr_free_node(expr_free_node(m, l), r)
    ELSE expr_free_node(expr_free_node(m, r), l)

\* both operands to instruction arguments, their temporaries freed, and
\* then Emit(m, l, r, larg, rarg) for the instruction
operands_to_args(m, l, r, Emit(_, _, _, _, _)) ==
    Bind(expr_to_ins_arg(m, l), LAMBDA m1 :
    Bind(expr_to_ins_arg(m1, r), LAMBDA m2 :
    Bind(free_operands(m2, m1.n, m2.n, m1.r, m2.r), LAMBDA m3 :
         Emit(m3, m1.n, m2.n, m1.r, m2.r))))

arith_operands(m, binop, l, r) ==
    operands_to_args(m, l, r, LAMBDA m3, l1, r1, larg, rarg :
        ret(fn_emit(m3, ins_new3(binop_opcode(binop)
                                     + B2I(node_is_const(r1))
                                     + B2I(node_is_const(l1)) * 2,
                                 0, larg, rarg)),
            RelocNode(ins_count(m3)), 0))

expr_emit_arith(m, binop, left, right) ==
    IF m.err # NoErr THEN m
    ELSE IF right.type = NODE_PRIM
    THEN psr_trigger_err(m, "invalid operand to binary operator")
    ELSE IF expr_fold_arith(binop, left, right)
    THEN ret(m, NumNode(fold_arith(binop, left.num, right.num)), 0)
    ELSE IF binop_is_commutative(binop) /\ node_is_const(left)
    THEN arith_operands(m, binop, right, left)
    ELSE arith_operands(m, binop, left, right)

\* expr_fold_rel on two numbers
fold_rel(binop, l, r) ==
    CASE binop = TK_EQ -> d_eq(l, r)
      [] binop = TK_NEQ -> ~d_eq(l, r)
      [] binop = CH_GT -> d_gt(l, r)
      [] binop = TK_GE -> d_ge(l, r)
      [] binop = CH_LT -> d_lt(l, r)
      [] binop = TK_LE -> d_le(l, r)

rel_opcode_offset(r) ==
    CASE r.type = NODE_NON_RELOC -> 0
      [] r.type = NODE_CONST -> 1
      [] r.type = NODE_PRIM -> 2
      [] OTHER -> -1

rel_operands(m, binop, l, r) ==
    operands_to_args(m, l, r, LAMBDA m3, l1, r1, larg, rarg :
        IF rel_opcode_offset(r1) = -1 THEN psr_trigger_err(m3, AssertFail)
        ELSE emit_cond_jmp(m3, ins_new2(binop_opcode(binop)
                                            + rel_opcode_offset(r1),
                                        larg, rarg)))

expr_emit_rel(m, binop, left, right) ==
    IF m.err # NoErr THEN m
    ELSE IF binop_is_ord(binop) /\ right.type = NODE_PRIM
    THEN psr_trigger_err(m, "invalid operand to binary operator")
    ELSE IF left.type = right.type /\ left.type = NODE_NUM
    THEN ret(m, PrimNode(B2I(fold_rel(binop, left.num, right.num))), 0)
    ELSE IF left.type = right.type /\ left.type = NODE_PRIM
    THEN \* neither case of the switch ends in a break
         psr_trigger_err(m, AssertFail)
    ELSE IF node_is_const(left)
    THEN rel_operands(m, IF binop_is_commutative(binop) THEN binop
                         ELSE binop_invert_rel(binop), right, left)
    ELSE rel_operands(m, binop, left, right)

expr_emit_and(m, left, right) ==
    Bind(expr_to_jmp(m, right), LAMBDA m1 :
    Bind(jmp_ensure_true_falls_through(m1, left), LAMBDA m2 :
    Bind(jmp_list_merge(jmp_list_patch(m2, m2.n.true_list,
                                       m2.n.false_list + 1),
                        m2.n.false_list, m1.n.false_list), LAMBDA m3 :
         ret(m3, [m2.n EXCEPT !.true_list = m1.n.true_list,
                              !.false_list = m3.r], 0))))

expr_emit_or(m, left, right) ==
    Bind(expr_to_jmp(m, right), LAMBDA m1 :
    Bind(jmp_ensure_false_falls_through(m1, left), LAMBDA m2 :
    Bind(jmp_list_merge(jmp_list_patch(m2, m2.n.false_list,
                                       m2.n.true_list + 1),
                        m2.n.true_list, m1.n.true_list), LAMBDA m3 :
         ret(m3, [m2.n EXCEPT !.false_list = m1.n.false_list,
                              !.true_list = m3.r], 0))))

expr_emit_binary(m, binop, left, right) ==
    IF m.err # NoErr THEN m
    ELSE CASE binop_is_arith(binop) -> expr_emit_arith(m, binop, left, right)
           [] binop_is_rel(binop) -> expr_emit_rel(m, binop, left, right)
           [] binop = TK_AND -> expr_emit_and(m, left, right)
           [] binop = TK_OR -> expr_emit_or(m, left, right)
           [] OTHER -> psr_trigger_err(m, AssertFail)

expr_emit_binary_left(m, binop, left) ==
    IF m.err # NoErr THEN m
    ELSE IF (binop_is_arith(binop) \/ binop_is_rel(binop))
            /\ left.type = NODE_NUM
    THEN ret(m, left, 0)
    ELSE IF (binop_is_arith(binop) \/ binop_is_rel(binop))
            /\ left.type = NODE_PRIM
    THEN psr_trigger_err(m, "invalid operand to binary operator")
    ELSE IF binop \in {TK_AND, TK_OR}
    THEN expr_to_jmp(m, left)
    ELSE expr_to_ins_arg(m, left)

expr_emit_neg(m, operand) ==
    IF m.err # NoErr THEN m
    ELSE IF operand.type = NODE_NUM
    THEN ret(m, NumNode(d_neg(operand.num)), 0)
    ELSE IF operand.type = NODE_PRIM
    THEN psr_trigger_err(m, "invalid operand to unary operator")
    ELSE Bind(expr_to_any_slot(m, operand), LAMBDA m1 :
         Bind(expr_free_node(m1, m1.n), LAMBDA m2 :
              ret(fn_emit(m2, ins_new2(OP_NEG, 0, m1.r)),
                  RelocNode(ins_count(m2)), 0)))

expr_emit_not(m, operand) ==
    Bind(expr_to_jmp(m, operand), LAMBDA m1 :
         ret(m1, [m1.n EXCEPT !.true_list = m1.n.false_list,
                              !.false_list = m1.n.true_list], 0))

expr_emit_unary(m, unop, operand) ==
    CASE unop = CH_SUB -> expr_emit_neg(m, operand)
      [] unop = CH_NOT -> expr_emit_not(m, operand)
      [] OTHER -> psr_trigger_err(m, AssertFail)

----------------------------------------------------------------------------
(* Operands and precedence climbing *)

\* the scan of expr_operand_local, parse_assign and parse_let: the locals
\* from index i on that have the name
local_hits(m, i, name) ==
    {k \in i .. (Len(m.locals) - 1) : m.locals[k + 1] = name}

\* the scan stops at the first: its slot, or -1 when there is none
find_local(m, i, name) ==
    IF local_hits(m, i, name) = {} THEN -1
    ELSE SetMin(local_hits(m, i, name)) - cur_scope(m).first_local

expr_operand_num(m) == lex_next(ret(m, NumNode(cur_tk(m).num), 0))

\* expr_operand_local once the scan has given a slot, or -1
operand_local_at(m, slot) ==
    IF slot = -1 THEN psr_trigger_err(m, "variable not defined")
    ELSE lex_next(ret(m, LocalNode(Trunc(slot, U8)), 0))

expr_operand_local(m) ==
    operand_local_at(m, find_local(m, cur_scope(m).first_local,
                                   cur_tk(m).ident))

expr_operand_prim(m) ==
    lex_next(ret(m, PrimNode(cur_tk(m).type - TK_FALSE), 0))

RECURSIVE parse_subexpr(_, _)
RECURSIVE parse_binops(_, _, _)
RECURSIVE expr_unary(_)
RECURSIVE expr_operand(_)

expr_operand_subexpr(m) ==
    Bind(parse_subexpr(lex_next(m), PREC_NONE), LAMBDA m1 :
    Bind(lex_expect(m1, CH_RPAREN), LAMBDA m2 :
         ret(lex_next(m2), m1.n, 0)))

expr_operand(m) ==
    IF m.err # NoErr THEN m
    ELSE CASE cur_tk(m).type = TK_NUM -> expr_operand_num(m)
           [] cur_tk(m).type = TK_IDENT -> expr_operand_local(m)
           [] cur_tk(m).type = CH_LPAREN -> expr_operand_subexpr(m)
           [] cur_tk(m).type \in {TK_TRUE, TK_FALSE, TK_NIL} ->
                expr_operand_prim(m)
           [] OTHER -> psr_trigger_err(m, "expected expression")

expr_unary(m) ==
    IF m.err # NoErr THEN m
    ELSE IF unop_prec(cur_tk(m).type) >= 0
    THEN Bind(parse_subexpr(lex_next(m), unop_prec(cur_tk(m).type)),
              LAMBDA m1 : expr_emit_unary(m1, cur_tk(m).type, m1.n))
    ELSE expr_operand(m)

\* the while loop of parse_subexpr
parse_binops(m, left, minimum) ==
    IF m.err # NoErr THEN m
    ELSE IF binop_prec(cur_tk(m).type) > minimum
    THEN Bind(expr_emit_binary_left(lex_next(m), cur_tk(m).type, left),
              LAMBDA m1 :
         Bind(parse_subexpr(m1, binop_prec(cur_tk(m).type)), LAMBDA m2 :
         Bind(expr_emit_binary(m2, cur_tk(m).type, m1.n, m2.n), LAMBDA m3 :
              parse_binops(m3, m3.n, minimum))))
    ELSE ret(m, left, 0)

parse_subexpr(m, minimum) ==
    Bind(expr_unary(m), LAMBDA m1 : parse_binops(m1, m1.n, minimum))

parse_expr(m) == parse_subexpr(m, PREC_NONE)

----------------------------------------------------------------------------
(* Statements.  parse_if, parse_loop, parse_while, parse_fn and parse_code *)
(* call parse_block in their middle; each is cut there into the part       *)
(* before the block and the part after it, and what the C function keeps   *)
(* in its locals across the block is kept in a Frame on ctl.  The Frame    *)
(* also holds the locals_count and next_slot that parse_block saved on     *)
(* entry.                                                                  *)

CH_COMMA  == 44
CH_LBRACE == 123
CH_RBRACE == 125

SubSeqTo(s, n) == SubSeq(s, 1, n)

Frame(kind, m) ==
    [kind |-> kind, jmp_head |-> -1, false_list |-> -1, start |-> -1,
     fn_name |-> 0, locals_count |-> Len(m.locals),
     next_slot |-> cur_scope(m).next_slot]

\* a block end that discards nothing
parse_block_end_kept(m, frame) == m

\* the two assignments parse_block ends with
parse_block_end(m, frame) ==
    IF m.err # NoErr THEN m
    ELSE set_next_slot([m EXCEPT !.locals = SubSeqTo(@, frame.locals_count)],
                       frame.next_slot)

\* the augmented operator of an assignment token, 0 for none
augmented_tk(type) ==
    CASE type = TK_ADD_ASSIGN -> CH_ADD
      [] type = TK_SUB_ASSIGN -> CH_SUB
      [] type = TK_MUL_ASSIGN -> CH_MUL
      [] type = TK_DIV_ASSIGN -> CH_DIV
      [] OTHER -> 0

\* parse_assign from the assignment token on; dest is the local's slot
assign_to(m, dest, augmented) ==
    Bind(parse_expr(lex_next(m)), LAMBDA m2 :
         IF augmented # 0
         THEN Bind(expr_emit_arith(m2, augmented, NonRelocNode(dest), m2.n),
                   LAMBDA m3 : expr_to_slot(m3, dest, m3.n))
         ELSE expr_to_slot(m2, dest, m2.n))

\* parse_assign after the name, which the scan found at dest or not at all
assign_found(m, dest) ==
    IF dest = -1 THEN psr_trigger_err(m, "variable not defined")
    ELSE assign_to(m, Trunc(dest, U8), augmented_tk(cur_tk(m).type))

parse_assign(m) ==
    Bind(lex_next(m), LAMBDA m1 :
         assign_found(m1, find_local(m1, cur_scope(m1).first_local,
                                     cur_tk(m).ident)))

parse_assign_or_expr(m) ==
    IF lex_peek(m).type = CH_ASSIGN
       \/ (lex_peek(m).type >= TK_ADD_ASSIGN
           /\ lex_peek(m).type <= TK_MOD_ASSIGN)
    THEN parse_assign(m)
    ELSE parse_expr(m)

\* parse_let from the `=` on
let_value(m, name) ==
    Bind(lex_expect(lex_next(m), CH_ASSIGN), LAMBDA m2 :
    Bind(parse_expr(lex_next(m2)), LAMBDA m3 :
    Bind(expr_to_next_slot(m3, m3.n), LAMBDA m4 :
         ret(psr_new_local(m4, name), m4.n, m4.r))))

\* m.r is the slot expr_to_next_slot returned
parse_let(m) ==
    Bind(lex_expect(lex_next(m), TK_IDENT), LAMBDA m1 :
         IF find_local(m1, cur_scope(m1).first_local, cur_tk(m1).ident) # -1
         THEN psr_trigger_err(m1, "variable already defined")
         ELSE let_value(m1, cur_tk(m1).ident))

\* the condition of an if, elseif or while, up to the `{` of its block:
\* m.n is the condition with its true list patched
parse_condition(m) ==
    Bind(parse_expr(lex_next(m)), LAMBDA m1 :
    Bind(expr_to_jmp(m1, m1.n), LAMBDA m2 :
    Bind(jmp_ensure_true_falls_through(m2, m2.n), LAMBDA m3 :
    Bind(lex_expect(jmp_list_patch(m3, m3.n.true_list, ins_count(m3)),
                    CH_LBRACE), LAMBDA m5 :
         ret(lex_next(m5), m3.n, 0)))))

\* parse_if up to the block of the if or elseif
parse_if_head(m) == parse_condition(m)

\* the JMP over the bodies that follow: the list's head is handed back in r
if_skip_rest(m, jmp_head) ==
    IF cur_tk(m).type \in {TK_ELSEIF, TK_ELSE}
    THEN jmp_list_append(fn_emit(m, ins_new1(OP_JMP, 0)), jmp_head,
                         ins_count(m))
    ELSE ret(m, m.n, jmp_head)

\* parse_if from the end of the block of an if or elseif to the end of the
\* do-while body; the token now current says what follows
parse_if_body_end(m, frame) ==
    Bind(lex_next(lex_expect(parse_block_end(m, frame), CH_RBRACE)),
         LAMBDA m1 :
    Bind(if_skip_rest(m1, frame.jmp_head), LAMBDA m2 :
         ret(jmp_list_patch(m2, frame.false_list, ins_count(m2)),
             m2.n, m2.r)))

\* the last statement of parse_if
parse_if_end(m, jmp_head) == jmp_list_patch(m, jmp_head, ins_count(m))

\* parse_loop and parse_while after their block
parse_loop_end(m, frame) ==
    Bind(lex_next(lex_expect(parse_block_end(m, frame), CH_RBRACE)),
         LAMBDA m1 :
         jmp_set_target(fn_emit(m1, ins_new1(OP_JMP, 0)), ins_count(m1),
                        frame.start))

parse_while_end(m, frame) ==
    Bind(parse_loop_end(m, frame), LAMBDA m1 :
         jmp_list_patch(m1, frame.false_list, ins_count(m1)))

\* The while loop over the argument list of parse_fn, all its iterations at
\* once.  It consumes IDENT (`,` IDENT)* and a `,` after that if there is
\* one: fn_args_count is how many arguments that is, the i-th at token 2i - 1
fn_args_count(toks) ==
    SetMax({0} \cup
        {j \in 1 .. ((Len(toks) + 1) \div 2) :
             \A i \in 1 .. j :
                 /\ toks[2 * i - 1].type = TK_IDENT
                 /\ i > 1 => toks[2 * i - 2].type = CH_COMMA})

\* the tokens the loop consumes for j arguments
fn_args_tokens(toks, j) ==
    IF j = 0 THEN 0
    ELSE IF 2 * j <= Len(toks) /\ toks[2 * j].type = CH_COMMA THEN 2 * j
    ELSE 2 * j - 1

\* each argument is added as a local and takes the scope's next slot
fn_args_add(m, j) ==
    [set_next_slot(m, cur_scope(m).next_slot + j) EXCEPT
         !.locals = @ \o [i \in 1 .. j |-> m.toks[2 * i - 1].ident],
         !.toks = SubSeq(@, fn_args_tokens(m.toks, j) + 1, Len(@))]

parse_fn_args(m) ==
    IF m.err # NoErr THEN m ELSE fn_args_add(m, fn_args_count(m.toks))

\* the FunctionScope parse_fn pushes for the function vm_new_fn made
fn_scope_push(m, fn) ==
    [m EXCEPT !.scopes = Append(@, [fn |-> fn, first_local |-> Len(m.locals),
                                    next_slot |-> 0])]

\* parse_fn up to its block; the function's name is handed back in r
parse_fn_head(m) ==
    Bind(lex_expect(lex_next(m), TK_IDENT), LAMBDA m1 :
    Bind(lex_expect(fn_scope_push(vm_new_fn(lex_next(m1)), Len(m1.fns)),
                    CH_LPAREN), LAMBDA m3 :
    Bind(lex_expect(parse_fn_args(lex_next(m3)), CH_RPAREN), LAMBDA m4 :
    Bind(lex_expect(lex_next(m4), CH_LBRACE), LAMBDA m5 :
         ret(lex_next(m5), m5.n, cur_tk(m1).ident)))))

\* a function end that emits no RET
emit_ret_left_out(m) == m

\* the RET that parse_fn and parse_code end a function with
emit_ret(m) == fn_emit(m, ins_new3(OP_RET, 0, 0, 0))

\* the FunctionScope is popped with its locals; fn is its function
fn_scope_pop(m) ==
    ret([m EXCEPT !.locals = SubSeqTo(@, cur_scope(m).first_local),
                  !.scopes = SubSeqTo(@, Len(@) - 1)], m.n, cur_scope(m).fn)

\* the function's name becomes a local of the enclosing scope
fn_store(m, fn_name, fn) ==
    Bind(psr_new_local(m, fn_name), LAMBDA m4 :
         fn_emit(set_next_slot(m4, cur_scope(m4).next_slot + 1),
                 ins_new2(OP_SET_F, Trunc(cur_scope(m4).next_slot, U8), fn)))

\* parse_fn after its block
parse_fn_end(m, frame) ==
    Bind(lex_next(lex_expect(parse_block_end(m, frame), CH_RBRACE)),
         LAMBDA m1 :
    Bind(fn_scope_pop(emit_ret(m1)), LAMBDA m3 :
         fn_store(m3, frame.fn_name, m3.r)))

\* parse_code after its block
parse_code_end(m, frame) == emit_ret(parse_block_end(m, frame))

----------------------------------------------------------------------------
(* The compiler as a state machine.  One action per statement kind that    *)
(* parse_block dispatches on, and one per block end.  The tokens of the    *)
(* statement are the action's input.                                       *)

MaxStmts  == 3
MaxParses == 2
MaxDepth  == 2

T(t) == <<Tk(t)>>
N(i) == <<TkNum(Num(i))>>
V(x) == <<TkIdent(x)>>
Bin(l, op, r) == l \o T(op) \o r
Par(e) == T(CH_LPAREN) \o e \o T(CH_RPAREN)

NoNode == NodeOf(NODE_NUM)

\* the machine an action starts from: the state, and the statement's tokens
Mach(toks) ==
    [fns |-> fns, consts |-> consts, locals |-> psr.locals,
     scopes |-> psr.scopes, err |-> NoErr, toks |-> toks, n |-> NoNode,
     r |-> 0]

top_level == [fn |-> 0, first_local |-> 0, next_slot |-> 0]

NoObs == [kind |-> "none", slot |-> 0, active |-> 0, touched |-> {},
          num |-> Num(0), before |-> 0, jmp |-> -1, target |-> -1]

Top     == ctl[Len(ctl)]
Pop     == SubSeqTo(ctl, Len(ctl) - 1)
Push(f) == Append(ctl, f)
ActiveLocals == Len(psr.locals) - psr.scopes[Len(psr.scopes)].first_local
Observe(kind, m) ==
    [obs EXCEPT !.kind = kind, !.slot = m.r, !.active = ActiveLocals,
                !.num = m.n.num, !.before = consts_count(consts)]

\* err_trigger longjmps to the guard in parse, which returns vm->err
Commit(m, newctl, newobs, newphase) ==
    /\ fns' = m.fns
    /\ consts' = m.consts
    /\ psr' = [locals |-> m.locals, scopes |-> m.scopes, err |-> m.err]
    /\ ctl' = IF m.err = NoErr THEN newctl ELSE <<>>
    /\ phase' = IF m.err = NoErr THEN newphase ELSE "done"
    /\ obs' = newobs
    /\ UNCHANGED <<trace, run>>

InBlock == phase = "parsing" /\ ctl # <<>>
Spend   == budget.stmts > 0 /\ budget' = [budget EXCEPT !.stmts = @ - 1]

\* parse: psr_new, the guard, and parse_code up to its block
ParseStart ==
    /\ phase \in {"idle", "done"}
    /\ budget.parses > 0
    /\ budget' = [budget EXCEPT !.parses = @ - 1]
    /\ psr' = [locals |-> <<>>, scopes |-> <<top_level>>, err |-> NoErr]
    /\ ctl' = <<[kind |-> "code", jmp_head |-> -1, false_list |-> -1,
                 start |-> -1, fn_name |-> 0, locals_count |-> 0,
                 next_slot |-> 0]>>
    /\ phase' = "parsing"
    /\ obs' = [NoObs EXCEPT !.kind = "start", !.touched = {0}]
    /\ UNCHANGED <<fns, consts, trace, run>>

\* what every action ends with, m being the machine its handler left
Step(m, kind, newctl, newphase) ==
    Commit(m, newctl, Observe(kind, m), newphase)

ParseLet(names, exprs) ==
    /\ InBlock /\ Spend
    /\ \E name \in names, e \in exprs :
         Step(parse_let(Mach(T(TK_LET) \o V(name) \o T(CH_ASSIGN) \o e)),
              "let", ctl, "parsing")

\* a statement that starts with an identifier
ParseAssignOrExpr(stmts) ==
    /\ InBlock /\ Spend
    /\ \E s \in stmts :
         Step(parse_assign_or_expr(Mach(s)), "expr", ctl, "parsing")

\* a statement that starts with `(`
ParseExprStmt(exprs) ==
    /\ InBlock /\ Spend
    /\ \E e \in exprs : Step(parse_expr(Mach(Par(e))), "expr", ctl, "parsing")

\* the block of an if or elseif is entered with the condition's false list
PushIf(m, kind, jmp_head, below) ==
    Step(m, kind, Append(below, [Frame("if", m) EXCEPT
                                     !.jmp_head = jmp_head,
                                     !.false_list = m.n.false_list]),
         "parsing")

ParseIf(conds) ==
    /\ InBlock /\ Spend /\ Len(ctl) <= MaxDepth
    /\ \E c \in conds :
         PushIf(parse_if_head(Mach(T(TK_IF) \o c \o T(CH_LBRACE))), "if",
                -1, ctl)

\* after the do-while body of parse_if, m.r being jmp_head
IfDone(m) == Step(parse_if_end(m, m.r), "endif", Pop, "parsing")
IfElseif(m) == PushIf(parse_if_head(m), "elseif", m.r, Pop)
IfElse(m) ==
    Step(lex_next(lex_expect(lex_next(m), CH_LBRACE)), "else",
         Append(Pop, [Frame("else", m) EXCEPT !.jmp_head = m.r]), "parsing")

\* `}` with no else or elseif after it
EndIf ==
    /\ InBlock /\ Top.kind = "if"
    /\ IfDone(parse_if_body_end(Mach(T(CH_RBRACE)), Top))
    /\ UNCHANGED budget

\* `} elseif c {`
EndIfElseif(conds) ==
    /\ InBlock /\ Top.kind = "if" /\ Spend
    /\ \E c \in conds :
         IfElseif(parse_if_body_end(
                      Mach(T(CH_RBRACE) \o T(TK_ELSEIF) \o c \o T(CH_LBRACE)),
                      Top))

\* `} else {`
EndIfElse ==
    /\ InBlock /\ Top.kind = "if"
    /\ IfElse(parse_if_body_end(
                  Mach(T(CH_RBRACE) \o T(TK_ELSE) \o T(CH_LBRACE)), Top))
    /\ UNCHANGED budget

EndElse ==
    /\ InBlock /\ Top.kind = "else"
    /\ Step(parse_if_end(lex_next(lex_expect(
                parse_block_end(Mach(T(CH_RBRACE)), Top), CH_RBRACE)),
                Top.jmp_head),
            "endelse", Pop, "parsing")
    /\ UNCHANGED budget

\* the block of a loop or while is entered; start is where it jumps back to
PushLoop(m, kind, start) ==
    Step(m, kind, Push([Frame(kind, m) EXCEPT
                            !.start = start,
                            !.false_list = m.n.false_list]), "parsing")

\* parse_loop up to its block: no condition, so no false list
parse_loop_head(m) ==
    ret(lex_next(lex_expect(lex_next(m), CH_LBRACE)), JmpNode(-1, -1), 0)

ParseLoop ==
    /\ InBlock /\ Spend /\ Len(ctl) <= MaxDepth
    /\ PushLoop(parse_loop_head(Mach(T(TK_LOOP) \o T(CH_LBRACE))), "loop",
                ins_count(Mach(<<>>)))

EndLoop ==
    /\ InBlock /\ Top.kind = "loop"
    /\ Step(parse_loop_end(Mach(T(CH_RBRACE)), Top), "endloop", Pop,
            "parsing")
    /\ UNCHANGED budget

ParseWhile(conds) ==
    /\ InBlock /\ Spend /\ Len(ctl) <= MaxDepth
    /\ \E c \in conds :
         PushLoop(parse_condition(Mach(T(TK_WHILE) \o c \o T(CH_LBRACE))),
                  "while", ins_count(Mach(<<>>)))

EndWhile ==
    /\ InBlock /\ Top.kind = "while"
    /\ Step(parse_while_end(Mach(T(CH_RBRACE)), Top), "endwhile", Pop,
            "parsing")
    /\ UNCHANGED budget

\* the tokens of k arguments, named from `first` on
ArgList(first, k) ==
    [i \in 1 .. (IF k = 0 THEN 0 ELSE 2 * k - 1) |->
         IF i % 2 = 1 THEN TkIdent(first + (i - 1) \div 2) ELSE Tk(CH_COMMA)]

\* the block of a function is entered, m.r being the function's name
PushFn(m) ==
    Commit(m, Push([Frame("fn", m) EXCEPT !.fn_name = m.r]),
           [Observe("fn", m) EXCEPT !.touched = @ \cup {cur_scope(m).fn}],
           "parsing")

ParseFn(names, first, counts) ==
    /\ InBlock /\ Spend /\ Len(ctl) <= MaxDepth
    /\ \E name \in names, k \in counts :
         PushFn(parse_fn_head(Mach(T(TK_FN) \o V(name) \o T(CH_LPAREN)
                                   \o ArgList(first, k) \o T(CH_RPAREN)
                                   \o T(CH_LBRACE))))

EndFn ==
    /\ InBlock /\ Top.kind = "fn"
    /\ Step(parse_fn_end(Mach(T(CH_RBRACE)), Top), "endfn", Pop, "parsing")
    /\ UNCHANGED budget

\* a token that starts no statement ends the block of parse_code
ParseEnd ==
    /\ InBlock /\ Top.kind = "code"
    /\ Step(parse_code_end(Mach(T(TK_EOF)), Top), "end", <<>>, "done")
    /\ UNCHANGED budget


----------------------------------------------------------------------------
(* The trace recorder (src/src/jit/compiler.c) and the register allocator  *)
(* (src/src/jit/asm/x64.c).  An IR instruction is four 16 bit segments:    *)
(* <<op, arg1, arg2, reg>>.  Of a trace the model keeps the IR array as    *)
(* [base, ir]: the entries 1 .. base are those that recording a = a + a    *)
(* over and over leaves (LOAD_STACK 0, then each ADD of the entry before   *)
(* it with itself), the entries after them are listed in ir.  Of the two   *)
(* tables it keeps the entries of the slots and constants that the         *)
(* recorded bytecodes name.                                                *)

IR_LOAD_STACK == 0
IR_LOAD_CONST == 1
IR_ADD        == 256
IROP_PREFIX_LOAD == 0
IR_NONE       == 0
HY_ARCH_NUM_REGS == 16

JitSlots  == 0 .. 2
JitConsts == 0 .. 1

ir_new2(op, arg1, arg2) == <<op, Trunc(arg1, U16), Trunc(arg2, U16), 0>>
ir_new1(op, arg) == <<op, Trunc(arg, U16), Trunc(arg \div U16, U16), 0>>
ir_op(ins)        == ins[1]
ir_op_prefix(ins) == (ins[1] \div U8) * U8
ir_arg1(ins)      == ins[2]
ir_arg2(ins)      == ins[3]
ir_reg(ins)       == ins[4]
ir_set_reg(ins, reg) == <<ins[1], ins[2], ins[3], Trunc(reg, U16)>>

bc_arg1(bc)  == bc[2]
bc_arg2(bc)  == bc[3]
bc_arg3(bc)  == bc[4]
bc_arg16(bc) == bc[3] + U8 * bc[4]

\* before the interpreter has started a trace
NoTrace ==
    [state |-> "none", base |-> 0, ir |-> <<>>,
     last_modified |-> [s \in JitSlots |-> IR_NONE],
     const_loads |-> [c \in JitConsts |-> IR_NONE], r |-> IR_NONE]

jit_trace_new == [NoTrace EXCEPT !.state = "recording"]

\* trace->ir_count, an int: entry 0 of the array is not used
ir_count(t) == 1 + t.base + Len(t.ir)

ir_at(t, i) ==
    IF i > t.base THEN t.ir[i - t.base]
    ELSE IF i = 1 THEN ir_new1(IR_LOAD_STACK, 0)
    ELSE ir_new2(IR_ADD, i - 1, i - 1)

\* ir_emit returns an IrRef, 16 bits of the index it stored the instruction at
ir_emit(t, ins) ==
    [t EXCEPT !.ir = Append(@, ins), !.r = Trunc(ir_count(t), U16)]

ir_load_stack(t, slot) ==
    IF t.last_modified[slot] = IR_NONE
    THEN [ir_emit(t, ir_new1(IR_LOAD_STACK, slot)) EXCEPT
              !.last_modified[slot] = Trunc(ir_count(t), U16)]
    ELSE [t EXCEPT !.r = t.last_modified[slot]]

ir_load_const(t, const_idx) ==
    IF t.const_loads[const_idx] = IR_NONE
    THEN [ir_emit(t, ir_new1(IR_LOAD_CONST, const_idx)) EXCEPT
              !.const_loads[const_idx] = Trunc(ir_count(t), U16)]
    ELSE [t EXCEPT !.r = t.const_loads[const_idx]]

jit_rec_MOV(t, bc) ==
    [t EXCEPT !.last_modified[bc_arg1(bc)] = t.last_modified[bc_arg2(bc)]]

\* the store that ends jit_rec_SET_N, jit_rec_ADD_LL and jit_rec_ADD_LN
set_last_modified(t, bc) == [t EXCEPT !.last_modified[bc_arg1(bc)] = t.r]

jit_rec_SET_N(t, bc) == set_last_modified(ir_load_const(t, bc_arg16(bc)), bc)

\* the ADD of `left` and the reference the trace hands back in r
emit_add(t, left) == ir_emit(t, ir_new2(IR_ADD, left, t.r))

\* the right operand is loaded after the left, whose reference is kept
add_right_stack(t, bc) ==
    set_last_modified(emit_add(ir_load_stack(t, bc_arg3(bc)), t.r), bc)
add_right_const(t, bc) ==
    set_last_modified(emit_add(ir_load_const(t, bc_arg3(bc)), t.r), bc)

jit_rec_ADD_LL(t, bc) == add_right_stack(ir_load_stack(t, bc_arg2(bc)), bc)
jit_rec_ADD_LN(t, bc) == add_right_const(ir_load_stack(t, bc_arg2(bc)), bc)

(* Register allocation.  live_ranges and reg_end are functions; the loops  *)
(* are run index by index.                                                 *)

\* the body of the loop of asm_calculate_live_ranges, for instruction i
live_range_step(t, live, i) ==
    IF ir_op_prefix(ir_at(t, i)) = IROP_PREFIX_LOAD THEN live
    ELSE [k \in DOMAIN live |->
              IF (k = ir_arg1(ir_at(t, i)) \/ k = ir_arg2(ir_at(t, i)))
                 /\ live[k] = IR_NONE
              THEN i ELSE live[k]]

RECURSIVE live_ranges_from(_, _, _)
live_ranges_from(t, live, i) ==
    IF i < 1 THEN live
    ELSE live_ranges_from(t, live_range_step(t, live, i), i - 1)

asm_calculate_live_ranges(t) ==
    live_ranges_from(t, [k \in 0 .. (ir_count(t) - 1) |-> IR_NONE],
                     ir_count(t) - 1)

\* the registers that finish being used at ins_ref are freed
free_regs(reg_end, ins_ref) ==
    [reg \in DOMAIN reg_end |->
         IF reg_end[reg] = ins_ref THEN IR_NONE ELSE reg_end[reg]]

FreeRegs(reg_end) == {reg \in DOMAIN reg_end : reg_end[reg] = IR_NONE}

\* the instruction takes the first register not in use; when there is none
\* the assert(false) that stands for register spilling stops the program
take_reg(a, live, ins_ref) ==
    IF FreeRegs(a.reg_end) = {} THEN [a EXCEPT !.failed = TRUE]
    ELSE [a EXCEPT
              !.t.ir[ins_ref] = ir_set_reg(@, SetMin(FreeRegs(a.reg_end))),
              !.reg_end[SetMin(FreeRegs(a.reg_end))] = live[ins_ref]]

RECURSIVE allocate_from(_, _, _)
\* the loop of asm_allocate_registers from ins_ref on
allocate_from(a, live, ins_ref) ==
    IF a.failed \/ ins_ref >= ir_count(a.t) THEN a
    ELSE allocate_from(
             take_reg([a EXCEPT !.reg_end = free_regs(@, ins_ref)],
                      live, ins_ref),
             live, ins_ref + 1)

\* a trace that is not one recorded from jit_trace_new on runs through
\* neither loop here; its state says whether every instruction got a register
asm_allocate_registers(t) ==
    allocate_from([t |-> t, failed |-> FALSE,
                   reg_end |-> [reg \in 0 .. (HY_ARCH_NUM_REGS - 1) |->
                                    IR_NONE]],
                  asm_calculate_live_ranges(t), 1)

\* jit_assemble: no machine code is encoded yet, the registers are its result
jit_assemble(a) ==
    [a.t EXCEPT !.state = IF a.failed THEN "aborted" ELSE "assembled"]

----------------------------------------------------------------------------
(* The interpreter, vm_run of src/src/vm.c.  Its bytecode has the opcodes  *)
(* of the compiler up to JMP, then LOOP, CALL and RET.  A Value is a tuple *)
(* <<tag, a, b>>: the double a/b under tag 0, a primitive under TAG_PRIM,  *)
(* a function index under TAG_FN.                                          *)

BC_LOOP == 30
BC_CALL == 31
BC_RET  == 32

JIT_THRESHOLD   == 50
ITER_TABLE_SIZE == 1024

TAG_NUM  == 0
TAG_PRIM == 1
TAG_FN   == 2

bc_op(bc)    == bc[1]
bc_arg24(bc) == bc[2] + U8 * bc[3] + U16 * bc[4]

n2v(num) == <<TAG_NUM, num[1], num[2]>>
v2n(val) == IF val[1] = TAG_NUM THEN <<val[2], val[3]>> ELSE DNaN

VmSlots == 0 .. 2

\* a slot of the malloc'ed stack that nothing was stored to
Junk == <<TAG_FN, U16, 0>>

\* the part of the run an instruction's own code works on
NoCore == [ip |-> 0, stk |-> [s \in VmSlots |-> Junk], state |-> "idle"]

\* vm_run's locals: the core, the current dispatch table, the loop iteration
\* table (the entries that were counted up), the traces started and not
\* finished; ref is the run of the same code through the interpreter table
\* alone, last the instruction executed last, prev the run before it
\* what the run was before its last instruction
Snap(r) ==
    [core |-> r.core, dispatch |-> r.dispatch,
     loop_iter_count |-> r.loop_iter_count, recording |-> r.recording,
     traces |-> r.traces]

NoIns == <<-1, 0, 0, 0>>

NoRun ==
    [core |-> NoCore, dispatch |-> "interpreter", loop_iter_count |-> <<>>,
     recording |-> 0, traces |-> 0, ref |-> NoCore, last |-> NoIns,
     prev |-> [core |-> NoCore, dispatch |-> "interpreter",
               loop_iter_count |-> <<>>, recording |-> 0, traces |-> 0]]

\* NEXT(): the instruction after the current one
next_ip(c) == [c EXCEPT !.ip = @ + 1]

\* a store that writes the slot below as well
store_below(c, slot, val) ==
    [c EXCEPT !.stk = [s \in DOMAIN @ |->
                           IF s \in {slot, slot - 1} THEN val ELSE @[s]]]

store(c, slot, val) == [c EXCEPT !.stk[slot] = val]

\* MOV, SET_N, SET_P, SET_F
op_store(c, k, bc) ==
    next_ip(store(c, bc_arg1(bc),
        CASE bc_op(bc) = OP_MOV   -> c.stk[bc_arg16(bc)]
          [] bc_op(bc) = OP_SET_N -> n2v(const_at(k, bc_arg16(bc)))
          [] bc_op(bc) = OP_SET_P -> <<TAG_PRIM, bc_arg16(bc), 0>>
          [] bc_op(bc) = OP_SET_F -> <<TAG_FN, bc_arg16(bc), 0>>))

StoreOps == {OP_MOV, OP_SET_N, OP_SET_P, OP_SET_F}

\* BC_ARITH and BC_ARITH_NON_COMMUTATIVE: which operands are constants
arith_left(c, k, bc) ==
    IF bc_op(bc) \in {OP_SUB_NL, OP_DIV_NL}
    THEN const_at(k, bc_arg2(bc)) ELSE v2n(c.stk[bc_arg2(bc)])

arith_right(c, k, bc) ==
    IF bc_op(bc) \in {OP_ADD_LN, OP_SUB_LN, OP_MUL_LN, OP_DIV_LN}
    THEN const_at(k, bc_arg3(bc)) ELSE v2n(c.stk[bc_arg3(bc)])

arith_operation(op, l, r) ==
    CASE op \in {OP_ADD_LL, OP_ADD_LN} -> d_add(l, r)
      [] op \in {OP_SUB_LL, OP_SUB_LN, OP_SUB_NL} -> d_sub(l, r)
      [] op \in {OP_MUL_LL, OP_MUL_LN} -> d_mul(l, r)
      [] op \in {OP_DIV_LL, OP_DIV_LN, OP_DIV_NL} -> d_div(l, r)

op_arith(c, k, bc) ==
    next_ip(store(c, bc_arg1(bc),
        IF bc_op(bc) = OP_NEG THEN n2v(d_neg(v2n(c.stk[bc_arg16(bc)])))
        ELSE n2v(arith_operation(bc_op(bc), arith_left(c, k, bc),
                                 arith_right(c, k, bc)))))

ArithOps == OP_ADD_LL .. OP_NEG

RelOps == OP_EQ_LL .. OP_GE_LN

\* the right operand of a relational instruction, as a Value
rel_right(c, k, bc) ==
    CASE bc_op(bc) \in {OP_EQ_LL, OP_NEQ_LL, OP_LT_LL, OP_LE_LL, OP_GT_LL,
                        OP_GE_LL} -> c.stk[bc_arg2(bc)]
      [] bc_op(bc) \in {OP_EQ_LP, OP_NEQ_LP} -> <<TAG_PRIM, bc_arg2(bc), 0>>
      [] OTHER -> n2v(const_at(k, bc_arg2(bc)))

\* BC_EQ(EQ, ==) in place of BC_EQ(EQ, !=): the test of EQ not inverted
rel_test_eq_plain(op, l, r) ==
    CASE op \in {OP_EQ_LL, OP_EQ_LN, OP_EQ_LP}    -> l = r
      [] op \in {OP_NEQ_LL, OP_NEQ_LN, OP_NEQ_LP} -> l = r
      [] op \in {OP_LT_LL, OP_LT_LN} -> d_ge(v2n(l), v2n(r))
      [] op \in {OP_LE_LL, OP_LE_LN} -> d_gt(v2n(l), v2n(r))
      [] op \in {OP_GT_LL, OP_GT_LN} -> d_le(v2n(l), v2n(r))
      [] op \in {OP_GE_LL, OP_GE_LN} -> d_lt(v2n(l), v2n(r))

\* the test that BC_EQ and BC_ORD compile for an opcode: ip++ when it holds
rel_test(op, l, r) ==
    CASE op \in {OP_EQ_LL, OP_EQ_LN, OP_EQ_LP}    -> l # r
      [] op \in {OP_NEQ_LL, OP_NEQ_LN, OP_NEQ_LP} -> l = r
      [] op \in {OP_LT_LL, OP_LT_LN} -> d_ge(v2n(l), v2n(r))
      [] op \in {OP_LE_LL, OP_LE_LN} -> d_gt(v2n(l), v2n(r))
      [] op \in {OP_GT_LL, OP_GT_LN} -> d_le(v2n(l), v2n(r))
      [] op \in {OP_GE_LL, OP_GE_LN} -> d_lt(v2n(l), v2n(r))

op_rel(c, k, bc) ==
    IF rel_test(bc_op(bc), c.stk[bc_arg1(bc)], rel_right(c, k, bc))
    THEN next_ip(next_ip(c))
    ELSE next_ip(c)

\* op_JMP: ip += arg24 - JMP_BIAS, then NEXT()
op_JMP(c, bc) == next_ip([c EXCEPT !.ip = @ + bc_arg24(bc) - JMP_BIAS])

\* finish: vm_run returns err, which nothing has set
finish(c) == [c EXCEPT !.state = "finished"]

\* UNIMPLEMENTED(), while (1) { assert(false); }: the process aborts, or
\* with NDEBUG loops for ever
Unimplemented == {"aborted", "hung"}

\* the jit_rec_* of jit/compile.c that return
Recordable == {OP_ADD_LN}

\* the entry of the loop iteration table that the LOOP at ip counts in
iter_idx(ip) == ip % ITER_TABLE_SIZE

iter_count(r, idx) ==
    IF idx \in DOMAIN r.loop_iter_count THEN r.loop_iter_count[idx] ELSE 0

set_iter_count(r, idx, n) ==
    [r EXCEPT !.loop_iter_count =
        [i \in (DOMAIN @) \cup {idx} |-> IF i = idx THEN n ELSE @[i]]]

\* jit_LOOP with the trace's end left out: the table stays the recording one
jit_LOOP_keeps_table(r) == [r EXCEPT !.core = finish(@)]

\* jit_LOOP: the trace is finished, the interpreter table is put back, and
\* the run goes to finish
jit_LOOP(r) ==
    [r EXCEPT !.dispatch = "interpreter", !.recording = 0,
              !.core = finish(@)]

\* op_LOOP up to the JMP it falls through to
hot_loop(r) ==
    IF (iter_count(r, iter_idx(r.core.ip)) + 1) % U8 >= JIT_THRESHOLD
    THEN [set_iter_count(r, iter_idx(r.core.ip), 0) EXCEPT
              !.traces = @ + 1, !.recording = @ + 1, !.dispatch = "jit"]
    ELSE set_iter_count(r, iter_idx(r.core.ip),
                        (iter_count(r, iter_idx(r.core.ip)) + 1) % U8)

op_LOOP(r, bc) == [hot_loop(r) EXCEPT !.core = op_JMP(@, bc)]
----------------------------------------------------------------------------
(* Spec: programs of up to MaxStmts statements over the names 1 and 2 and  *)
(* the function name 3, compiled in up to MaxParses calls of parse on one  *)
(* runtime.                                                                *)

Names   == {1, 2}
FnNames == {3}

Atoms == {N(1), N(2), V(1), T(TK_TRUE)}
Exprs ==
    Atoms
    \cup {Bin(V(1), op, x) : op \in {CH_ADD, CH_SUB, TK_EQ, CH_LT, TK_AND},
                             x \in {N(1), V(2)}}
    \cup {Bin(N(1), CH_ADD, N(1)), Bin(N(2), CH_SUB, V(1)),
          Bin(N(2), CH_LT, V(1)), T(CH_SUB) \o V(1), T(CH_NOT) \o V(1),
          Bin(Bin(V(1), TK_EQ, N(1)), TK_OR, Bin(V(1), CH_LT, N(2))),
          Bin(T(TK_TRUE), TK_AND, T(TK_TRUE))}
Conds ==
    {V(1), T(TK_TRUE), Bin(V(1), TK_EQ, N(1)),
     Bin(Bin(V(1), TK_EQ, N(1)), TK_AND, Bin(V(1), CH_LT, N(2)))}
Assigns ==
    {V(1) \o T(op) \o e : op \in {CH_ASSIGN, TK_ADD_ASSIGN},
                          e \in {N(1), N(2), V(1), Bin(V(1), TK_EQ, N(1))}}
    \cup {Bin(V(1), TK_EQ, N(1)), V(1)}

Init ==
    /\ fns = <<[ins |-> <<>>]>>
    /\ consts = [base |-> 0, tail |-> <<>>]
    /\ psr = [locals |-> <<>>, scopes |-> <<>>, err |-> NoErr]
    /\ ctl = <<>>
    /\ phase = "idle"
    /\ obs = NoObs
    /\ trace = NoTrace
    /\ run = NoRun
    /\ budget = [stmts |-> MaxStmts, parses |-> MaxParses]

Next ==
    \/ ParseStart
    \/ ParseLet(Names, Exprs)
    \/ ParseAssignOrExpr(Assigns)
    \/ ParseExprStmt(Exprs)
    \/ ParseIf(Conds)
    \/ EndIf
    \/ EndIfElseif(Conds)
    \/ EndIfElse
    \/ EndElse
    \/ ParseLoop
    \/ EndLoop
    \/ ParseWhile(Conds)
    \/ EndWhile
    \/ ParseFn(FnNames, 1, {0, 1})
    \/ EndFn
    \/ ParseEnd

Spec == Init /\ [][Next]_vars


----------------------------------------------------------------------------
(* Properties of Spec *)

Compiled == phase = "done" /\ psr.err = NoErr

\* the index a JMP at idx of function f decodes to (as jmp_follow reads it)
JmpTarget(f, idx) ==
    idx + (ins_arg24(fns[f + 1].ins[idx + 1]) - JMP_BIAS + 1)

JmpsOf(f) ==
    {idx \in 0 .. (Len(fns[f + 1].ins) - 1) :
         ins_op(fns[f + 1].ins[idx + 1]) = OP_JMP}

\* C1: after a compilation without error, every JMP of every function the
\* compilation emitted into decodes to a target t with 0 <= t < ins_count of
\* that function.
C1_JumpsResolved ==
    Compiled =>
        \A f \in obs.touched : \A idx \in JmpsOf(f) :
            JmpTarget(f, idx) >= 0 /\ JmpTarget(f, idx) < Len(fns[f + 1].ins)

\* a compilation without error that emitted a JMP
C1_Witness == Compiled /\ \E f \in obs.touched : JmpsOf(f) # {}

\* C2: after a successful parse the last instruction of every function the
\* compiler touched (the main function, and each function a fn definition
\* created) is RET.
C2_EndsWithRet ==
    Compiled =>
        \A f \in obs.touched :
            /\ fns[f + 1].ins # <<>>
            /\ ins_op(fns[f + 1].ins[Len(fns[f + 1].ins)]) = OP_RET

\* a successful parse of a program with a fn definition
C2_Witness == Compiled /\ Cardinality(obs.touched) >= 2

PoolIndices == 0 .. (consts_count(consts) - 1)

\* the numbers a program of Spec can intern
Interned == {Num(i) : i \in -2 .. 4}

\* C3: no two entries of the pool have the same bits, and interning a number
\* the pool holds returns the index of that entry and leaves the pool as it
\* was.
C3_PoolNoDuplicates ==
    /\ \A i, j \in PoolIndices :
           const_at(consts, i) = const_at(consts, j) => i = j
    /\ \A num \in Interned :
           (\E i \in PoolIndices : const_at(consts, i) = num) =>
               /\ vm_add_num(consts, num).consts = consts
               /\ vm_add_num(consts, num).idx \in PoolIndices
               /\ const_at(consts, vm_add_num(consts, num).idx) = num

SetNs(f) ==
    {idx \in 0 .. (Len(fns[f + 1].ins) - 1) :
         ins_op(fns[f + 1].ins[idx + 1]) = OP_SET_N}

\* a second compilation on the runtime is over, the pool holds two numbers
\* and two SET_N of the main function load the same one
C3_Witness ==
    /\ Compiled /\ budget.parses = 0
    /\ consts_count(consts) = 2
    /\ \E i, j \in SetNs(0) :
           i < j /\ ins_arg16(fns[1].ins[i + 1]) = ins_arg16(fns[1].ins[j + 1])

\* the code of the function the parser is emitting into
CurCode == fns[psr.scopes[Len(psr.scopes)].fn + 1].ins

LoopEnded ==
    /\ obs.kind \in {"endloop", "endwhile"}
    /\ phase = "parsing" /\ psr.err = NoErr

\* C18: when a loop or while statement has been parsed, the last instruction
\* emitted is a LOOP, not a JMP, and it jumps backwards.
C18_LoopEndsWithLOOP ==
    LoopEnded =>
        /\ CurCode # <<>>
        /\ ins_op(CurCode[Len(CurCode)]) = BC_LOOP
        /\ JmpTarget(psr.scopes[Len(psr.scopes)].fn, Len(CurCode) - 1)
               <= Len(CurCode) - 1

----------------------------------------------------------------------------
(* SpecLocals: functions with as many parameters as a scope has slots, and *)
(* the let and fn statements in them.                                      *)

ParamCounts == {0, MAX_LOCALS - 1, MAX_LOCALS + 1}
FirstParam  == 10
LocalExprs  ==
    {N(1), V(1),
     Bin(Par(Bin(V(FirstParam), CH_ADD, N(1))), CH_MUL,
         Par(Bin(V(FirstParam), CH_ADD, N(2))))}

NextLocals ==
    \/ ParseStart
    \/ ParseFn({3, 4}, FirstParam, ParamCounts)
    \/ ParseLet(Names, LocalExprs)
    \/ EndFn
    \/ ParseEnd

SpecLocals == Init /\ [][NextLocals]_vars

\* the named locals of scope i of the scope stack
LocalsIn(i) ==
    (IF i = Len(psr.scopes) THEN Len(psr.locals)
     ELSE psr.scopes[i + 1].first_local) - psr.scopes[i].first_local

\* C4: the slot a let that compiles stores its value into is below 255 and
\* above the slot of every named local live in the scope, which are the
\* slots 0 .. active - 1.
C4_LetSlotFresh ==
    (obs.kind = "let" /\ psr.err = NoErr) =>
        obs.slot < MAX_LOCALS /\ obs.slot >= obs.active

\* C5: a scope's next-slot counter never exceeds 255, no scope comes to hold
\* a 256th named local, and a let fails with 'too many locals in function'
\* only when the scope holds 255 named locals already.
C5_LocalsLimit ==
    /\ \A i \in 1 .. Len(psr.scopes) : psr.scopes[i].next_slot <= MAX_LOCALS
    /\ psr.err = NoErr =>
           \A i \in 1 .. Len(psr.scopes) : LocalsIn(i) <= MAX_LOCALS
    /\ (obs.kind = "let" /\ psr.err = "too many locals in function") =>
           obs.active >= MAX_LOCALS

----------------------------------------------------------------------------
(* SpecConsts: a package compiled on a runtime whose pool an earlier       *)
(* compilation, of another package, has filled up to two entries short of  *)
(* the 65,535 that expr_discharge allows.                                  *)

ConstExprs   == {N(1), N(2), N(3), N(PreludeFirst), V(1)}
ConstAssigns == {V(1) \o T(CH_ASSIGN) \o e : e \in ConstExprs}

InitConsts ==
    /\ fns = <<[ins |-> <<>>]>>
    /\ consts = [base |-> USHRT_MAX - 2, tail |-> <<>>]
    /\ psr = [locals |-> <<>>, scopes |-> <<>>, err |-> NoErr]
    /\ ctl = <<>>
    /\ phase = "idle"
    /\ obs = NoObs
    /\ trace = NoTrace
    /\ run = NoRun
    /\ budget = [stmts |-> MaxStmts + 1, parses |-> MaxParses]

NextConsts ==
    \/ ParseStart
    \/ ParseLet(Names, ConstExprs)
    \/ ParseAssignOrExpr(ConstAssigns)
    \/ ParseEnd

SpecConsts == InitConsts /\ [][NextConsts]_vars

\* C6: the pool never holds more than 65,535 numbers, and a compilation
\* fails with 'too many constants' only over a number that the full pool
\* does not hold (obs.num is the number expr_discharge was given).
C6_ConstsLimit ==
    /\ consts_count(consts) <= USHRT_MAX
    /\ psr.err = "too many constants" =>
           /\ consts_count(consts) = USHRT_MAX
           /\ const_scan(consts, obs.num) = {}

----------------------------------------------------------------------------
(* SpecJmp: the jump list of an if whose bodies are not listed.  Of each   *)
(* body only the JMP that ends it is kept; how many instructions the       *)
(* bodies after it hold is the input of the patch.                         *)

MaxJmps == 3
Across  == {0, 1, JMP_BIAS - 2, JMP_BIAS - 1, JMP_BIAS, JMP_BIAS + 1}

\* the end of a body that an else follows: the JMP over the rest
BodyJmp ==
    /\ InBlock /\ Top.kind = "code"
    /\ ins_count(Mach(<<>>)) < MaxJmps
    /\ Step(if_skip_rest(Mach(T(TK_ELSE)), Top.jmp_head), "body",
            <<[Top EXCEPT !.jmp_head = ins_count(Mach(<<>>))]>>, "parsing")
    /\ UNCHANGED budget

\* the end of the if, k instructions after the last JMP of the list
PatchJmps ==
    /\ InBlock /\ Top.kind = "code" /\ Top.jmp_head >= 0
    /\ \E k \in Across :
         Commit(jmp_list_patch(Mach(<<>>), Top.jmp_head,
                               ins_count(Mach(<<>>)) + k),
                <<[Top EXCEPT !.jmp_head = -1]>>,
                [obs EXCEPT !.kind = "patch", !.jmp = Top.jmp_head,
                            !.target = ins_count(Mach(<<>>)) + k],
                "parsing")
    /\ UNCHANGED budget

NextJmp == ParseStart \/ BodyJmp \/ PatchJmps \/ ParseEnd

SpecJmp == Init /\ [][NextJmp]_vars

\* C7: a list patched to a target that lies 2^23 or more instructions past
\* the instruction after the jump ends the compilation with an error.
C7_FarJumpRejected ==
    (obs.kind = "patch" /\ obs.target - (obs.jmp + 1) >= JMP_BIAS) =>
        psr.err # NoErr

----------------------------------------------------------------------------
(* SpecFold: let statements whose expressions are built from number        *)
(* literals, unary minus, + - * / and parentheses.                         *)

Neg(e) == T(CH_SUB) \o e

FoldExprs ==
    {N(3), Neg(N(3)), Neg(Neg(N(4))), Neg(Neg(Neg(N(5)))),
     Bin(N(3), CH_ADD, N(4)),
     Bin(N(3), CH_ADD, Bin(N(4), CH_MUL, N(5))),
     Bin(Par(Bin(N(3), CH_ADD, N(10))), CH_MUL, N(2)),
     Bin(N(7), CH_SUB, N(4)), Bin(N(6), CH_DIV, N(4)),
     Bin(N(1), CH_DIV, N(0)), Bin(N(0), CH_DIV, N(0)),
     Neg(Par(Bin(N(1), CH_SUB, N(8)))),
     Bin(N(2), CH_MUL, Neg(N(3))),
     Bin(Bin(N(10), CH_SUB, N(4)), CH_SUB, N(3)),
     Bin(Par(Bin(N(1), CH_ADD, N(2))), CH_DIV, Par(Bin(N(3), CH_SUB, N(3))))}

\* parse_let on such an expression; obs.before is the function's length and
\* the pool's size when the statement starts
FoldLet ==
    /\ InBlock /\ Spend
    /\ \E name \in Names, e \in FoldExprs :
         Commit(parse_let(Mach(T(TK_LET) \o V(name) \o T(CH_ASSIGN) \o e)),
                ctl,
                [Observe("foldlet",
                         parse_let(Mach(T(TK_LET) \o V(name) \o T(CH_ASSIGN)
                                        \o e)))
                 EXCEPT !.before = [ins |-> ins_count(Mach(<<>>)),
                                    consts |-> consts_count(consts)]],
                "parsing")

NextFold == ParseStart \/ FoldLet \/ ParseEnd

SpecFold == Init /\ [][NextFold]_vars

Folded == obs.kind = "foldlet" /\ psr.err = NoErr

\* C20: a let of an expression of number literals that compiles emits one
\* instruction, a SET_N into the slot of the new local, and the pool gains
\* no constant or one.
C20_LiteralsFold ==
    Folded =>
        /\ Len(CurCode) = obs.before.ins + 1
        /\ ins_op(CurCode[Len(CurCode)]) = OP_SET_N
        /\ consts_count(consts) - obs.before.consts \in {0, 1}
        /\ \A i \in 1 .. Len(CurCode) :
               ins_op(CurCode[i]) \in {OP_SET_N, OP_RET}

\* a let of a folded binary expression that added its value to the pool
C20_Witness ==
    /\ Folded
    /\ consts_count(consts) = obs.before.consts + 1
    /\ const_at(consts, consts_count(consts) - 1) = Num(23)


----------------------------------------------------------------------------
(* SpecPatch: a jump list is built as parse_if builds the list of the      *)
(* jumps that end its bodies, with other instructions between the jumps,   *)
(* and is patched twice from the same head.  The second patch is made once *)
(* the instruction at the first target exists.                             *)

MaxCode == 5

PlainIns == {ins_new2(OP_MOV, 0, 1), ins_new2(OP_SET_N, 1, 0)}

\* an instruction that is no jump, inside or after the bodies
EmitPlain ==
    /\ InBlock /\ obs.kind \in {"start", "list", "patch1"}
    /\ ins_count(Mach(<<>>)) < MaxCode
    /\ \E i \in PlainIns :
         Commit(fn_emit(Mach(<<>>), i), ctl, obs, "parsing")
    /\ UNCHANGED budget

\* the JMP at the end of a body, appended to the list (parse_if)
ListJmp ==
    /\ InBlock /\ obs.kind \in {"start", "list"}
    /\ ins_count(Mach(<<>>)) < MaxCode
    /\ Commit(if_skip_rest(Mach(T(TK_ELSE)), Top.jmp_head),
              <<[Top EXCEPT !.jmp_head = ins_count(Mach(<<>>))]>>,
              [obs EXCEPT !.kind = "list",
                          !.touched = IF obs.kind = "start"
                                      THEN {ins_count(Mach(<<>>))}
                                      ELSE @ \cup {ins_count(Mach(<<>>))}],
              "parsing")
    /\ UNCHANGED budget

\* the targets a patch is given: an instruction after the head, or the end
PatchTargets == (Top.jmp_head + 1) .. ins_count(Mach(<<>>))

PatchFirst ==
    /\ InBlock /\ obs.kind = "list"
    /\ \E t \in PatchTargets :
         Commit(jmp_list_patch(Mach(<<>>), Top.jmp_head, t), ctl,
                [obs EXCEPT !.kind = "patch1", !.target = t], "parsing")
    /\ UNCHANGED budget

PatchSecond ==
    /\ InBlock /\ obs.kind = "patch1"
    /\ obs.target < ins_count(Mach(<<>>))
    /\ \E t \in PatchTargets :
         Commit(jmp_list_patch(Mach(<<>>), Top.jmp_head, t), ctl,
                [obs EXCEPT !.kind = "patch2", !.jmp = obs.target,
                            !.target = t, !.before = fns[1].ins],
                "parsing")
    /\ UNCHANGED budget

NextPatch == ParseStart \/ EmitPlain \/ ListJmp \/ PatchFirst \/ PatchSecond

SpecPatch == Init /\ [][NextPatch]_vars

\* C12: after jmp_list_patch(list, t1) and jmp_list_patch(list, t2) on the
\* same head every jump of the list targets t2, and every instruction that is
\* not in the list is what it was before the second patch.
C12_SecondPatchWins ==
    obs.kind = "patch2" =>
        /\ \A j \in obs.touched : JmpTarget(0, j) = obs.target
        /\ \A i \in 0 .. (Len(fns[1].ins) - 1) :
               i \notin obs.touched => fns[1].ins[i + 1] = obs.before[i + 1]

----------------------------------------------------------------------------
(* SpecDischarge: expr_discharge applied to a node of every type, and      *)
(* applied once more to the node it left, between the statements of a      *)
(* compilation on the runtime of SpecConsts.                               *)

DisNodes ==
    {NumNode(Num(1)), NumNode(Num(2)), NumNode(Num(7)), LocalNode(0),
     PrimNode(PRIM_TRUE), ConstNode(0), ConstNode(5), RelocNode(0),
     NonRelocNode(0), NonRelocNode(3), JmpNode(0, -1), JmpNode(-1, 1)}

Discharged == {NODE_CONST, NODE_NON_RELOC, NODE_RELOC, NODE_PRIM, NODE_JMP}

\* what the call was given, and the pool and the bytecode it found
Given(node) == [n |-> node, consts |-> consts, fns |-> fns]

Discharge(node, kind) ==
    /\ Commit(expr_discharge(Mach(<<>>), node), ctl,
              [obs EXCEPT !.kind = kind, !.before = Given(node),
                          !.num = expr_discharge(Mach(<<>>), node).n],
              "parsing")
    /\ UNCHANGED budget

DischargeFirst ==
    /\ InBlock /\ obs.kind # "discharge1"
    /\ \E node \in DisNodes : Discharge(node, "discharge1")

DischargeAgain ==
    /\ InBlock /\ obs.kind = "discharge1"
    /\ Discharge(obs.num, "discharge2")

NextDischarge ==
    \/ ParseStart
    \/ ParseLet(Names, ConstExprs)
    \/ DischargeFirst
    \/ DischargeAgain

SpecDischarge == InitConsts /\ [][NextDischarge]_vars

\* C13: expr_discharge leaves a node of type CONST, NON_RELOC, RELOC, PRIM or
\* JMP as it is and changes neither the pool nor the bytecode; the node a
\* discharge leaves is of one of these types, so a second discharge changes
\* nothing.
C13_DischargeIdempotent ==
    /\ (obs.kind \in {"discharge1", "discharge2"}
           /\ obs.before.n.type \in Discharged) =>
           /\ obs.num = obs.before.n
           /\ consts = obs.before.consts
           /\ fns = obs.before.fns
           /\ psr.err = NoErr
    /\ obs.kind = "discharge2" => obs.before.n.type \in Discharged

\* a number was interned by the first discharge, and discharged again
C13_Witness ==
    /\ obs.kind = "discharge2"
    /\ obs.before.n.type = NODE_CONST
    /\ obs.before.n.const_idx >= USHRT_MAX - 2

----------------------------------------------------------------------------
(* SpecRepl: vm_run_string called up to MaxRuns times on one package, each *)
(* call with one statement of source code.                                 *)

MaxRuns == 3

\* a piece of code, the name it declares and the name it refers to (0: none)
ReplCodes ==
    {[toks |-> T(TK_LET) \o V(x) \o T(CH_ASSIGN) \o N(i), lets |-> x,
      refers |-> 0] : x \in Names, i \in {3, 4}}
    \cup {[toks |-> V(x) \o T(op) \o N(4), lets |-> 0, refers |-> x] :
              x \in Names, op \in {CH_ASSIGN, TK_ADD_ASSIGN}}

\* psr_new
psr_new(toks) ==
    [Mach(toks) EXCEPT !.locals = <<>>, !.scopes = <<top_level>>]

\* parse for a code of one statement: psr_new, parse_code, the guard
parse(toks) ==
    parse_code_end(
        IF Head(toks).type = TK_LET THEN parse_let(psr_new(toks))
        ELSE parse_assign_or_expr(psr_new(toks)),
        [Frame("code", psr_new(toks)) EXCEPT !.locals_count = 0])

\* vm_run on code without jumps: the instructions from c.ip to the first RET
RECURSIVE run_main(_, _, _)
run_main(c, k, code) ==
    IF c.state # "running" THEN c
    ELSE IF bc_op(code[c.ip + 1]) \in StoreOps
    THEN run_main(op_store(c, k, code[c.ip + 1]), k, code)
    ELSE IF bc_op(code[c.ip + 1]) \in ArithOps
    THEN run_main(op_arith(c, k, code[c.ip + 1]), k, code)
    ELSE finish(c)

\* the indices of the instructions that run_main executes
RECURSIVE run_indices(_, _, _)
run_indices(c, k, code) ==
    IF c.state # "running" THEN {}
    ELSE IF bc_op(code[c.ip + 1]) \in StoreOps
    THEN {c.ip} \cup run_indices(op_store(c, k, code[c.ip + 1]), k, code)
    ELSE IF bc_op(code[c.ip + 1]) \in ArithOps
    THEN {c.ip} \cup run_indices(op_arith(c, k, code[c.ip + 1]), k, code)
    ELSE {c.ip}

\* the instructions that vm_run_string executes
run_string_indices(r, m) ==
    IF m.err # NoErr THEN {}
    ELSE run_indices([r.core EXCEPT !.ip = 0, !.state = "running"],
                     m.consts, m.fns[1].ins)

\* vm_run_string: vm_run(main_fn, 0) unless parse returned an error
run_string(r, m) ==
    IF m.err # NoErr THEN r
    ELSE [r EXCEPT !.core = run_main([@ EXCEPT !.ip = 0, !.state = "running"],
                                     m.consts, m.fns[1].ins),
                   !.ref = run_main([@ EXCEPT !.ip = 0, !.state = "running"],
                                    m.consts, m.fns[1].ins)]

\* obs.before: the names that earlier runs without error declared;
\* obs.touched: those and the name this run declared; obs.jmp: the number of
\* instructions the main function held at the call; obs.slot: the indices
\* of the instructions the call executed
RunString ==
    /\ phase \in {"idle", "done"}
    /\ budget.parses > 0
    /\ budget' = [budget EXCEPT !.parses = @ - 1]
    /\ \E code \in ReplCodes :
         /\ fns' = parse(code.toks).fns
         /\ consts' = parse(code.toks).consts
         /\ psr' = [locals |-> parse(code.toks).locals,
                    scopes |-> parse(code.toks).scopes,
                    err |-> parse(code.toks).err]
         /\ run' = run_string(run, parse(code.toks))
         /\ obs' = [obs EXCEPT
                !.kind = "run_string", !.before = obs.touched,
                !.target = code.refers,
                !.jmp = Len(fns[1].ins),
                !.slot = run_string_indices(run, parse(code.toks)),
                !.touched = IF parse(code.toks).err = NoErr /\ code.lets # 0
                            THEN @ \cup {code.lets} ELSE @]
    /\ ctl' = <<>>
    /\ phase' = "done"
    /\ UNCHANGED trace

InitRepl ==
    /\ fns = <<[ins |-> <<>>]>>
    /\ consts = [base |-> 0, tail |-> <<>>]
    /\ psr = [locals |-> <<>>, scopes |-> <<>>, err |-> NoErr]
    /\ ctl = <<>>
    /\ phase = "idle"
    /\ obs = NoObs
    /\ trace = NoTrace
    /\ run = NoRun
    /\ budget = [stmts |-> 0, parses |-> MaxRuns]

NextRepl == RunString

SpecRepl == InitRepl /\ [][NextRepl]_vars

\* C19: a run that refers to a name that an earlier run on the package
\* declared compiles without the error 'variable not defined' and is run.
C19_EarlierNamesVisible ==
    (obs.kind = "run_string" /\ obs.target \in obs.before) =>
        /\ psr.err # "variable not defined"
        /\ run.core.state = "finished"

\* the instructions that the last call emitted
Emitted == obs.jmp .. (Len(fns[1].ins) - 1)

\* C30: a call of run_string that returns no error has executed every
\* instruction it emitted and none that an earlier call emitted.
C30_RunsOwnCode ==
    (obs.kind = "run_string" /\ psr.err = NoErr) =>
        /\ Emitted \subseteq obs.slot
        /\ obs.slot \cap (0 .. (obs.jmp - 1)) = {}

----------------------------------------------------------------------------
(* SpecJit: the interpreter records up to MaxRec bytecodes into a trace    *)
(* and hands it to the assembler.  The trace is a new one, or one that has *)
(* LongTrace instructions already.                                         *)

MaxRec    == 3
LongTrace == U16 - 2

Recording == trace.state = "recording" /\ budget.stmts > 0

Recorded(t) ==
    /\ trace' = t
    /\ budget' = [budget EXCEPT !.stmts = @ - 1]
    /\ UNCHANGED <<fns, consts, psr, ctl, phase, obs, run>>

RecMOV ==
    /\ Recording
    /\ \E d \in JitSlots, s \in JitSlots :
         Recorded(jit_rec_MOV(trace, ins_new2(OP_MOV, d, s)))

RecSET_N ==
    /\ Recording
    /\ \E d \in JitSlots, c \in JitConsts :
         Recorded(jit_rec_SET_N(trace, ins_new2(OP_SET_N, d, c)))

RecADD_LL ==
    /\ Recording
    /\ \E d \in JitSlots, l \in JitSlots, r \in JitSlots :
         Recorded(jit_rec_ADD_LL(trace, ins_new3(OP_ADD_LL, d, l, r)))

RecADD_LN ==
    /\ Recording
    /\ \E d \in JitSlots, l \in JitSlots, c \in JitConsts :
         Recorded(jit_rec_ADD_LN(trace, ins_new3(OP_ADD_LN, d, l, c)))

\* the trace is finished and assembled; the loops of the allocator are run
\* for the traces that were started new
Assemble ==
    /\ trace.state = "recording" /\ trace.base = 0
    /\ trace' = jit_assemble(asm_allocate_registers(trace))
    /\ UNCHANGED <<fns, consts, psr, ctl, phase, obs, budget, run>>

\* the trace after a = a + a was recorded LongTrace - 1 times
long_trace ==
    [jit_trace_new EXCEPT !.base = LongTrace,
                          !.last_modified[0] = Trunc(LongTrace, U16),
                          !.r = Trunc(LongTrace, U16)]

InitJit ==
    /\ fns = <<[ins |-> <<>>]>>
    /\ consts = [base |-> 0, tail |-> <<>>]
    /\ psr = [locals |-> <<>>, scopes |-> <<>>, err |-> NoErr]
    /\ ctl = <<>>
    /\ phase = "idle"
    /\ obs = NoObs
    /\ trace \in {jit_trace_new, long_trace}
    /\ run = NoRun
    /\ budget = [stmts |-> MaxRec, parses |-> 0]

NextJit == RecMOV \/ RecSET_N \/ RecADD_LL \/ RecADD_LN \/ Assemble

SpecJit == InitJit /\ [][NextJit]_vars

\* the indices of the IR array that the properties look at: all of a short
\* trace, and of a long one the entries after the first `base`
IrRefs == (trace.base + 1) .. (ir_count(trace) - 1)

Uses(j, i) ==
    /\ ir_op_prefix(ir_at(trace, j)) # IROP_PREFIX_LOAD
    /\ ir_arg1(ir_at(trace, j)) = i \/ ir_arg2(ir_at(trace, j)) = i

\* the last instruction to use i, IR_NONE when none does
LastUse(i) == SetMax({IR_NONE} \cup {j \in IrRefs : Uses(j, i)})

\* C8: after register allocation, two instructions i < j of which the first
\* is last used at j or later have different registers.
C8_LiveRegistersDiffer ==
    trace.state = "assembled" =>
        \A i \in IrRefs, j \in IrRefs :
            (i < j /\ LastUse(i) >= j) =>
                ir_reg(ir_at(trace, i)) # ir_reg(ir_at(trace, j))

\* C9: every entry of the slot-to-writer table that is not none is below
\* ir_count, and each argument of an instruction that is not a load is at
\* least 1 and below the instruction's own index.
C9_RefsInRange ==
    /\ \A s \in JitSlots :
           trace.last_modified[s] # IR_NONE =>
               trace.last_modified[s] < ir_count(trace)
    /\ \A i \in IrRefs :
           ir_op_prefix(ir_at(trace, i)) # IROP_PREFIX_LOAD =>
               /\ ir_arg1(ir_at(trace, i)) >= 1
               /\ ir_arg1(ir_at(trace, i)) < i
               /\ ir_arg2(ir_at(trace, i)) >= 1
               /\ ir_arg2(ir_at(trace, i)) < i

ConstLoads(c) ==
    {i \in IrRefs : /\ ir_op(ir_at(trace, i)) = IR_LOAD_CONST
                    /\ ir_arg1(ir_at(trace, i)) = c}

\* C10: a trace holds at most one LOAD_CONST for each constant index.
C10_OneLoadPerConst ==
    \A c \in JitConsts : Cardinality(ConstLoads(c)) <= 1

StackLoads(s) ==
    {i \in IrRefs : /\ ir_op(ir_at(trace, i)) = IR_LOAD_STACK
                    /\ ir_arg1(ir_at(trace, i)) = s}

\* C11: within one trace a LOAD_STACK of slot s is emitted by the first read
\* of s only: a trace that was started new never holds two loads of one slot.
C11_OneLoadPerSlot ==
    trace.base = 0 => \A s \in JitSlots : Cardinality(StackLoads(s)) <= 1

----------------------------------------------------------------------------
(* SpecVm: vm_run on the main function of a package, one action per group  *)
(* of opcodes.  The bytecode is one of a set of programs over a pool of    *)
(* four numbers.                                                           *)

VmPool == <<Num(0), Num(1), Num(3), Num(100)>>

Jmp(op, from, to) == ins_new1(op, to - from + JMP_BIAS - 1)

\* let a = 0  loop { a += 1 }
LoopForever ==
    <<[ins |-> <<ins_new2(OP_SET_N, 0, 0), ins_new3(OP_ADD_LN, 0, 0, 1),
                 Jmp(BC_LOOP, 2, 1), ins_new3(BC_RET, 0, 0, 0)>>]>>

\* let a = 0  while a < k[n] { a += 1 }
While(n) ==
    <<[ins |-> <<ins_new2(OP_SET_N, 0, 0), ins_new2(OP_GE_LN, 0, n),
                 Jmp(OP_JMP, 2, 5), ins_new3(OP_ADD_LN, 0, 0, 1),
                 Jmp(BC_LOOP, 4, 1), ins_new3(BC_RET, 0, 0, 0)>>]>>

\* fn f() { let b = 3 }  f()  let c = 1
Call ==
    <<[ins |-> <<ins_new2(OP_SET_F, 0, 1), ins_new3(BC_CALL, 0, 1, 0),
                 ins_new2(OP_SET_N, 1, 1), ins_new3(BC_RET, 0, 0, 0)>>],
      [ins |-> <<ins_new2(OP_SET_N, 0, 2), ins_new3(BC_RET, 0, 0, 0)>>]>>

\* slot 0 = k[x] / k[y], slot 1 = k[y], slot 2 = true, then op on the slot
\* `left` and the operand `right`, its JMP, and the instruction it jumps over
Rel(op, x, y, left, right) ==
    <<[ins |-> <<ins_new2(OP_SET_N, 0, x), ins_new2(OP_SET_N, 1, y),
                 ins_new3(OP_DIV_LL, 0, 0, 1),
                 ins_new2(OP_SET_P, 2, PRIM_TRUE),
                 ins_new2(op, left, right), Jmp(OP_JMP, 5, 7),
                 ins_new2(OP_MOV, 2, 0), ins_new3(BC_RET, 0, 0, 0)>>]>>

RelLL == {OP_EQ_LL, OP_NEQ_LL, OP_LT_LL, OP_LE_LL, OP_GT_LL, OP_GE_LL}
RelLN == {OP_EQ_LN, OP_NEQ_LN, OP_LT_LN, OP_LE_LN, OP_GT_LN, OP_GE_LN}
RelLP == {OP_EQ_LP, OP_NEQ_LP}

Programs ==
    {LoopForever, While(2), While(3), Call}
    \cup {Rel(op, x, y, 0, 1) : op \in RelLL, x \in 0 .. 2, y \in 0 .. 2}
    \cup {Rel(op, x, y, 0, 1) : op \in RelLN, x \in 0 .. 2, y \in 0 .. 2}
    \cup {Rel(op, x, 1, 2, x) : op \in RelLP, x \in 0 .. 2}

InitVm ==
    /\ fns \in Programs
    /\ consts = [base |-> 0, tail |-> VmPool]
    /\ psr = [locals |-> <<>>, scopes |-> <<>>, err |-> NoErr]
    /\ ctl = <<>>
    /\ phase = "idle"
    /\ obs = NoObs
    /\ trace = NoTrace
    /\ budget = [stmts |-> 0, parses |-> 0]
    /\ run = NoRun

Running == run.core.state = "running"

\* *ip
Cur == fns[1].ins[run.core.ip + 1]

Did(r) == [r EXCEPT !.last = Cur, !.prev = Snap(run)]

Rest == UNCHANGED <<fns, consts, psr, ctl, phase, obs, trace, budget>>

\* vm_run up to DISPATCH() of the first instruction
VmStart ==
    /\ run.core.state = "idle"
    /\ run' = [NoRun EXCEPT !.core.state = "running",
                            !.ref.state = "running"]
    /\ Rest

\* the jit_rec_* call of OPCODE() does not return
RecordFails == run.dispatch = "jit" /\ bc_op(Cur) \notin Recordable

Abort ==
    \E s \in Unimplemented : run' = Did([run EXCEPT !.core.state = s])

ExecStore ==
    /\ Running /\ bc_op(Cur) \in StoreOps
    /\ IF RecordFails THEN Abort
       ELSE run' = Did([run EXCEPT !.core = op_store(@, consts, Cur),
                                   !.ref = op_store(@, consts, Cur)])
    /\ Rest

ExecArith ==
    /\ Running /\ bc_op(Cur) \in ArithOps
    /\ IF RecordFails THEN Abort
       ELSE run' = Did([run EXCEPT !.core = op_arith(@, consts, Cur),
                                   !.ref = op_arith(@, consts, Cur)])
    /\ Rest

ExecRel ==
    /\ Running /\ bc_op(Cur) \in RelOps
    /\ IF RecordFails THEN Abort
       ELSE run' = Did([run EXCEPT !.core = op_rel(@, consts, Cur),
                                   !.ref = op_rel(@, consts, Cur)])
    /\ Rest

\* jit_JMP and op_JMP are one label
ExecJmp ==
    /\ Running /\ bc_op(Cur) = OP_JMP
    /\ run' = Did([run EXCEPT !.core = op_JMP(@, Cur),
                              !.ref = op_JMP(@, Cur)])
    /\ Rest

ExecLoop ==
    /\ Running /\ bc_op(Cur) = BC_LOOP
    /\ run' = Did([(IF run.dispatch = "jit" THEN jit_LOOP(run)
                    ELSE op_LOOP(run, Cur))
                   EXCEPT !.ref = op_JMP(@, Cur)])
    /\ Rest

\* jit_CALL records; op_CALL falls through to jit_RET, which records
ExecCall ==
    /\ Running /\ bc_op(Cur) = BC_CALL
    /\ \E s \in Unimplemented :
         run' = Did([run EXCEPT !.core.state = s, !.ref.state = s])
    /\ Rest

\* jit_RET records; op_RET is finish
ExecRet ==
    /\ Running /\ bc_op(Cur) = BC_RET
    /\ IF RecordFails THEN Abort
       ELSE run' = Did([run EXCEPT !.core = finish(@), !.ref = finish(@)])
    /\ Rest

NextVm ==
    \/ VmStart \/ ExecStore \/ ExecArith \/ ExecRel \/ ExecJmp \/ ExecLoop
    \/ ExecCall \/ ExecRet

SpecVm == InitVm /\ [][NextVm]_vars

----------------------------------------------------------------------------
(* Claims about vm_run, checked under SpecVm.                              *)

Ended == run.core.state \in {"finished"} \cup Unimplemented

\* C14: vm_run returns only after a RET: no other instruction ends the run,
\* and the instruction after a CALL is a running one.
C14_ReturnsAtRet ==
    /\ run.core.state = "finished" => bc_op(run.last) = BC_RET
    /\ bc_op(run.last) = BC_CALL => Running

\* C15: a run in which a loop was recorded ends as the run through the
\* interpreter table alone ends: it has executed the same instructions and
\* holds the same stack.
C15_RecordingTransparent ==
    (run.traces > 0 /\ Ended) =>
        /\ run.ref.state = run.core.state
        /\ run.ref.ip = run.core.ip
        /\ run.ref.stk = run.core.stk

LastIdx == iter_idx(run.prev.core.ip)

\* C16: the dispatch table changes at LOOP only; the interpreter's LOOP
\* changes it exactly when its counter reaches JIT_THRESHOLD, and then the
\* counter is 0 and one more trace exists and is being recorded; the
\* recorder's LOOP puts the interpreter table back and ends the recording;
\* never more than one trace is being recorded.
C16_TableSwitchAtLoop ==
    /\ run.dispatch # run.prev.dispatch => bc_op(run.last) = BC_LOOP
    /\ (bc_op(run.last) = BC_LOOP /\ run.prev.dispatch = "interpreter") =>
          /\ run.dispatch = "jit" <=>
                 iter_count(run.prev, LastIdx) + 1 = JIT_THRESHOLD
          /\ run.dispatch = "jit" =>
                 /\ iter_count(run, LastIdx) = 0
                 /\ run.traces = run.prev.traces + 1
                 /\ run.recording = 1
          /\ run.dispatch = "interpreter" =>
                 /\ iter_count(run, LastIdx) = iter_count(run.prev, LastIdx) + 1
                 /\ run.traces = run.prev.traces
                 /\ run.recording = 0
    /\ (bc_op(run.last) = BC_LOOP /\ run.prev.dispatch = "jit") =>
          run.dispatch = "interpreter" /\ run.recording = 0
    /\ run.recording <= 1
    /\ run.recording = 1 <=> run.dispatch = "jit"

\* a loop got hot, was recorded, and the recorder's LOOP was executed
C16_Witness ==
    /\ bc_op(run.last) = BC_LOOP
    /\ run.prev.dispatch = "jit"
    /\ run.traces = 1

\* the operands of the relational instruction executed last; it leaves the
\* stack alone, so they are read from the stack as it is
RelLeft == run.core.stk[bc_arg1(run.last)]
RelRight == rel_right(run.core, consts, run.last)

IsNum(val) == val[1] = TAG_NUM /\ v2n(val) # DNaN

\* the relation an opcode is named after
rel_named(op, l, r) ==
    CASE op \in {OP_EQ_LL, OP_EQ_LN, OP_EQ_LP}    -> l = r
      [] op \in {OP_NEQ_LL, OP_NEQ_LN, OP_NEQ_LP} -> l # r
      [] op \in {OP_LT_LL, OP_LT_LN} -> d_lt(v2n(l), v2n(r))
      [] op \in {OP_LE_LL, OP_LE_LN} -> d_le(v2n(l), v2n(r))
      [] op \in {OP_GT_LL, OP_GT_LN} -> d_gt(v2n(l), v2n(r))
      [] op \in {OP_GE_LL, OP_GE_LN} -> d_ge(v2n(l), v2n(r))

RelDone ==
    /\ bc_op(run.last) \in RelOps
    /\ run.prev.dispatch = "interpreter"

Skipped == run.core.ip = run.prev.core.ip + 2
Paired == run.core.ip = run.prev.core.ip + 1

\* C17 as stated: the instruction after a relational instruction is skipped
\* when the named relation holds and executed when it does not; no stack
\* slot is modified.
C17_SkipWhenHolds ==
    RelDone =>
        /\ rel_named(bc_op(run.last), RelLeft, RelRight) => Skipped
        /\ ~rel_named(bc_op(run.last), RelLeft, RelRight) => Paired
        /\ run.core.stk = run.prev.core.stk

OrdOps == OP_LT_LL .. OP_GE_LN

\* C17 amended: the paired JMP is executed when the named relation holds
\* and skipped when it does not, EQ and NEQ comparing the two Values bit for
\* bit; an ordering instruction with an operand that is NaN executes its
\* JMP; no stack slot is modified.
C17_JmpWhenHolds ==
    RelDone =>
        /\ Skipped \/ Paired
        /\ (bc_op(run.last) \notin OrdOps \/ (IsNum(RelLeft) /\ IsNum(RelRight)))
              => (Paired <=> rel_named(bc_op(run.last), RelLeft, RelRight))
        /\ (bc_op(run.last) \in OrdOps /\ ~(IsNum(RelLeft) /\ IsNum(RelRight)))
              => Paired
        /\ run.core.stk = run.prev.core.stk

\* 0 < 1 was tested by LT_LL and the JMP is the next instruction
C17_Witness ==
    /\ RelDone /\ bc_op(run.last) = OP_LT_LL
    /\ RelLeft = n2v(Num(0)) /\ RelRight = n2v(Num(1))
    /\ Paired

----------------------------------------------------------------------------
(* SpecOrd: expression statements that compare a number literal, on the    *)
(* left, with a local.                                                     *)

OrdTks == {CH_LT, TK_LE, CH_GT, TK_GE}

\* obs.num is the literal, obs.target the operator of the source, and
\* obs.before the function's length when the statement starts
OrdExpr ==
    /\ InBlock /\ Spend
    /\ \E k \in 1 .. 2, binop \in OrdTks, x \in Names :
         Commit(parse_expr(Mach(Par(Bin(N(k), binop, V(x))))), ctl,
                [obs EXCEPT !.kind = "ord", !.num = Num(k),
                            !.target = binop, !.slot = x,
                            !.before = [ins |-> ins_count(Mach(<<>>)),
                                        consts |-> consts_count(consts)]],
                "parsing")

NextOrd ==
    \/ ParseStart \/ ParseLet(Names, {N(1), N(2)}) \/ OrdExpr \/ ParseEnd

SpecOrd == Init /\ [][NextOrd]_vars

\* the values of the local that the comparisons are tried on
OrdVals == {Num(0), Num(1), Num(2), Num(3), DInf, DNegInf}

\* the comparison instruction the statement emitted
OrdIns == CurCode[obs.before.ins + 1]

\* C21: the comparison emitted for `k op a` holds of a value of a exactly
\* when k op a holds of it.
C21_SwapKeepsMeaning ==
    (obs.kind = "ord" /\ psr.err = NoErr) =>
        /\ Len(CurCode) = obs.before.ins + 2
        /\ ins_op(OrdIns) \in {OP_LT_LN, OP_LE_LN, OP_GT_LN, OP_GE_LN}
        /\ const_at(consts, ins_arg16(OrdIns)) = obs.num
        /\ \A v \in OrdVals :
               rel_named(ins_op(OrdIns), n2v(v),
                         n2v(const_at(consts, ins_arg16(OrdIns))))
                   <=> fold_rel(obs.target, obs.num, v)

----------------------------------------------------------------------------
(* SpecPrim: expression statements that compare a local with a primitive   *)
(* literal, on either side.                                                *)

RelTks  == OrdTks \cup {TK_EQ, TK_NEQ}
PrimTks == {TK_TRUE, TK_FALSE, TK_NIL}

Declared(x) == \E i \in 1 .. Len(psr.locals) : psr.locals[i] = x

\* obs.target is the operator, obs.slot 0 for a primitive on the left and 1
\* for one on the right
PrimExpr ==
    /\ InBlock /\ Spend
    /\ \E p \in PrimTks, binop \in RelTks, x \in Names, side \in {0, 1} :
         /\ Declared(x)
         /\ Commit(parse_expr(Mach(Par(IF side = 0
                                       THEN Bin(T(p), binop, V(x))
                                       ELSE Bin(V(x), binop, T(p))))),
                   ctl,
                   [obs EXCEPT !.kind = "prim", !.target = binop,
                               !.slot = side,
                               !.before = [ins |-> ins_count(Mach(<<>>)),
                                           consts |-> consts_count(consts)]],
                   "parsing")

NextPrim ==
    \/ ParseStart \/ ParseLet(Names, {N(1), T(TK_TRUE)}) \/ PrimExpr
    \/ ParseEnd

SpecPrim == Init /\ [][NextPrim]_vars

\* C22: an ordering operator with a primitive operand is a compile error;
\* == and != with a primitive operand compile, and with the primitive on
\* the right the comparison emitted is the _LP one.
C22_PrimOperands ==
    obs.kind = "prim" =>
        /\ obs.target \in OrdTks =>
               psr.err = "invalid operand to binary operator"
        /\ obs.target \in {TK_EQ, TK_NEQ} =>
               /\ psr.err = NoErr
               /\ obs.slot = 1 =>
                      ins_op(CurCode[obs.before.ins + 1])
                          = (IF obs.target = TK_EQ THEN OP_EQ_LP
                             ELSE OP_NEQ_LP)

----------------------------------------------------------------------------
(* SpecErr: source code of up to MaxLines lines, one statement on a line,  *)
(* parsed and run by vm_run_string (no path) or vm_run_file (a path).      *)

MaxLines == 3

StmtKinds == {"let1", "let2", "undef", "prim"}

StmtToks(kind) ==
    CASE kind = "let1" -> T(TK_LET) \o V(1) \o T(CH_ASSIGN) \o N(1)
      [] kind = "let2" -> T(TK_LET) \o V(2) \o T(CH_ASSIGN) \o N(2)
      [] kind = "undef" -> V(3) \o T(CH_ASSIGN) \o N(5)
      [] kind = "prim" -> Par(Bin(N(7), CH_LT, T(TK_TRUE)))

\* lex_next copies the lexer's line into the token
AtLine(toks, line) ==
    [i \in 1 .. Len(toks) |->
        [type |-> toks[i].type, num |-> toks[i].num, ident |-> toks[i].ident,
         line |-> line]]

LineToks(code, i) ==
    IF i > Len(code) THEN <<>> ELSE AtLine(StmtToks(code[i]), i)

Codes == UNION {[1 .. n -> StmtKinds] : n \in 1 .. MaxLines}
Paths == {0, 1}

\* one iteration of the loop of parse_block
parse_statement(m) ==
    CASE cur_tk(m).type = TK_LET -> parse_let(m)
      [] cur_tk(m).type = TK_IDENT -> parse_assign_or_expr(m)
      [] cur_tk(m).type = CH_LPAREN -> parse_expr(m)
      [] OTHER -> m

NoHyErr == [desc |-> NoErr, line |-> -1, file |-> 0]

\* the HyErr of psr_trigger_err: the description, the line of the lexer's
\* current token (the first token of the line after `line` when the tokens
\* of `line` are used up, the end of the code after the last line), and
\* the path
HyErrOf(m, code, line, path) ==
    IF m.err = NoErr THEN NoHyErr
    ELSE [desc |-> m.err,
          line |-> IF m.toks # <<>> THEN Head(m.toks).line
                   ELSE IF line < Len(code) THEN line + 1 ELSE line,
          file |-> path]

\* vm_run_string or vm_run_file up to the first statement of parse_code.
\* obs.slot: the code; obs.target: the path; obs.jmp: the lines parsed;
\* obs.num: the error returned; obs.before: the function's length, the pool
\* and the interpreter's state at the call
RunStart ==
    /\ phase \in {"idle", "done"}
    /\ budget.parses > 0
    /\ budget' = [budget EXCEPT !.parses = @ - 1]
    /\ psr' = [locals |-> <<>>, scopes |-> <<top_level>>, err |-> NoErr]
    /\ ctl' = <<[kind |-> "code", jmp_head |-> -1, false_list |-> -1,
                 start |-> -1, fn_name |-> 0, locals_count |-> 0,
                 next_slot |-> 0]>>
    /\ phase' = "parsing"
    /\ \E code \in Codes, path \in Paths :
         obs' = [NoObs EXCEPT
                !.kind = "runstart", !.slot = code, !.target = path,
                !.jmp = 0, !.num = NoHyErr,
                !.before = [ins |-> Len(fns[1].ins), consts |-> consts,
                            run |-> run]]
    /\ UNCHANGED <<fns, consts, trace, run>>

Parsing == phase = "parsing" /\ obs.kind \in {"runstart", "runline"}

\* the statement on the next line; an error ends the call
RunLine ==
    /\ Parsing /\ obs.jmp < Len(obs.slot)
    /\ Commit(parse_statement(Mach(LineToks(obs.slot, obs.jmp + 1))), ctl,
              [obs EXCEPT
                  !.kind = IF parse_statement(Mach(LineToks(
                                  obs.slot, obs.jmp + 1))).err = NoErr
                           THEN "runline" ELSE "runcode",
                  !.jmp = @ + 1,
                  !.num = HyErrOf(parse_statement(Mach(LineToks(
                                      obs.slot, obs.jmp + 1))),
                                  obs.slot, obs.jmp + 1, obs.target)],
              "parsing")
    /\ UNCHANGED budget

\* the end of the code: parse_code emits RET, parse returns no error and
\* vm_run runs the main function
RunEnd ==
    /\ Parsing /\ obs.jmp = Len(obs.slot)
    /\ fns' = parse_code_end(Mach(<<>>), Top).fns
    /\ run' = run_string(run, parse_code_end(Mach(<<>>), Top))
    /\ psr' = [locals |-> parse_code_end(Mach(<<>>), Top).locals,
               scopes |-> parse_code_end(Mach(<<>>), Top).scopes,
               err |-> NoErr]
    /\ obs' = [obs EXCEPT !.kind = "runcode"]
    /\ ctl' = <<>>
    /\ phase' = "done"
    /\ UNCHANGED <<consts, trace, budget>>

NextErr == RunStart \/ RunLine \/ RunEnd

SpecErr == Init /\ [][NextErr]_vars

\* line i of a code is in error: it refers to a name never declared, orders
\* a number and a primitive, or declares a name an earlier line declared
BadLine(code, i) ==
    \/ code[i] \in {"undef", "prim"}
    \/ \E j \in 1 .. (i - 1) : code[j] = code[i]

BadLines(code) == {i \in 1 .. Len(code) : BadLine(code, i)}

FirstBad(code) == SetMin(BadLines(code))

DescOf(kind) ==
    CASE kind = "undef" -> "variable not defined"
      [] kind = "prim" -> "invalid operand to binary operator"
      [] OTHER -> "variable already defined"

PoolSet(c) == {const_at(c, i) : i \in 0 .. (consts_count(c) - 1)}

\* C23: a code with a line in error returns the error of the first such
\* line, with that line's number and the path; the function has gained the
\* instructions of the lines before it and nothing else, the pool the
\* numbers of those lines at most, and nothing was executed.
C23_FirstErrorWins ==
    (obs.kind = "runcode" /\ BadLines(obs.slot) # {}) =>
        /\ obs.num = [desc |-> DescOf(obs.slot[FirstBad(obs.slot)]),
                      line |-> FirstBad(obs.slot), file |-> obs.target]
        /\ psr.err = obs.num.desc
        /\ Len(fns[1].ins) = obs.before.ins + FirstBad(obs.slot) - 1
        /\ PoolSet(consts) \subseteq
               PoolSet(obs.before.consts) \cup {Num(1), Num(2)}
        /\ run = obs.before.run

\* a code with two lines in error, the first of them on line 2, run from a
\* file
C23_Witness ==
    /\ obs.kind = "runcode"
    /\ obs.slot = <<"let1", "prim", "undef">>
    /\ obs.target = 1
    /\ obs.num.line = 2

----------------------------------------------------------------------------
(* SpecRound: one JMP of a function, its target set by the parser, then    *)
(* followed by the parser and executed by the interpreter.  Of the         *)
(* function's instructions only the JMP is kept.                           *)

JmpIdxs ==
    {0, 1, 2, 7, 100, JMP_BIAS - 2, JMP_BIAS - 1, JMP_BIAS, JMP_BIAS + 1,
     JMP_BIAS + 7, JMP_BIAS + 100, 2 * JMP_BIAS - 2, 2 * JMP_BIAS - 1,
     2 * JMP_BIAS, 2 * JMP_BIAS + 1, 2 * JMP_BIAS + 7}

\* the targets: an instruction, or the -1 that ends a jump list
JmpTargets == JmpIdxs \cup {-1}

Dist(i, t) == IF t >= i THEN t - i ELSE i - t

\* a function of which the instruction at jmp_idx alone is kept
OnlyJmp(jmp_idx) ==
    [fns |-> <<[ins |-> [k \in {jmp_idx + 1} |-> ins_new1(OP_JMP, 0)]]>>,
     scopes |-> <<top_level>>, err |-> NoErr]

\* the interpreter's ip after the instruction of m at ip
jmp_exec(m, ip) == op_JMP([NoCore EXCEPT !.ip = ip], ins_at(m, ip)).ip

\* obs.jmp: the JMP's index; obs.target: the target set; obs.before: what
\* jmp_follow returns and where the interpreter continues
JmpRound ==
    /\ \E i \in JmpIdxs, t \in JmpTargets :
         /\ Dist(i, t) < JMP_BIAS
         /\ obs' = [NoObs EXCEPT
                !.kind = "round", !.jmp = i, !.target = t,
                !.before =
                    [follow |-> jmp_follow(jmp_set_target(OnlyJmp(i), i, t),
                                           i),
                     ip |-> jmp_exec(jmp_set_target(OnlyJmp(i), i, t), i)]]
    /\ UNCHANGED <<fns, consts, psr, ctl, phase, budget, trace, run>>

NextRound == JmpRound

SpecRound == Init /\ [][NextRound]_vars

\* C24: a JMP whose target was set less than 2^23 instructions away is
\* followed by the parser to that target, and the interpreter executing it
\* continues at that target.
C24_JmpRoundTrip ==
    obs.kind = "round" =>
        /\ obs.before.follow = obs.target
        /\ obs.before.ip = obs.target

\* the farthest backward jump
C24_Witness ==
    /\ obs.kind = "round"
    /\ obs.jmp = 2 * JMP_BIAS - 1
    /\ obs.target = JMP_BIAS
    /\ obs.before.ip = JMP_BIAS

----------------------------------------------------------------------------
(* SpecFile: vm_run_file on a path of up to MaxPath characters.  A 64-bit  *)
(* number is its 8 bytes, the lowest first.                                *)

MaxPath == 3
MaxPkgs == 1

CH_SLASH == 47
CH_DOT   == 46
PathChars == {CH_SLASH, CH_DOT, 116, 120}    \* / . t x

FilePaths == UNION {[1 .. n -> PathChars] : n \in 0 .. MaxPath}

U64Zero == [i \in 1 .. 8 |-> 0]
\* ~((uint64_t) 0)
U64Ones == [i \in 1 .. 8 |-> U8 - 1]
\* !((uint64_t) 0): the int 1
U64NotZero == [i \in 1 .. 8 |-> IF i = 1 THEN 1 ELSE 0]

RECURSIVE byte_xor(_, _)
byte_xor(a, b) ==
    IF a = 0 /\ b = 0 THEN 0
    ELSE ((a + b) % 2) + 2 * byte_xor(a \div 2, b \div 2)

\* the bytes k .. 8 of hash * FNV_64_PRIME, 0x100000001b3 = 2^40 + 2^8 + 0xb3,
\* modulo 2^64
RECURSIVE fnv_mul(_, _, _)
fnv_mul(hash, k, carry) ==
    IF k > 8 THEN <<>>
    ELSE LET s == hash[k] * 179
                  + (IF k > 1 THEN hash[k - 1] ELSE 0)
                  + (IF k > 5 THEN hash[k - 5] ELSE 0)
                  + carry
         IN  <<s % U8>> \o fnv_mul(hash, k + 1, s \div U8)

RECURSIVE hash_string(_, _)
hash_string(string, length) ==
    IF length = 0 THEN U64Zero
    ELSE LET hash == fnv_mul(hash_string(string, length - 1), 1, 0)
         IN  [hash EXCEPT ![1] = byte_xor(@, string[length])]

\* the index of the last ch of string, -1 when it has none
rfind(string, ch) ==
    SetMax({-1} \cup {i \in 0 .. (Len(string) - 1) : string[i + 1] = ch})

extract_pkg_name(path) ==
    LET last_path == rfind(path, CH_SLASH)
        dot       == rfind(path, CH_DOT)
        last_dot  == IF last_path # -1 /\ dot < last_path THEN -1 ELSE dot
        stop      == IF last_dot # -1 THEN last_dot ELSE Len(path)
    IN  IF last_path = -1 /\ last_dot = -1 THEN hash_string(path, Len(path))
        ELSE IF last_path = -1 THEN hash_string(path, last_dot)
        ELSE IF stop - last_path <= 1 THEN U64NotZero
        ELSE hash_string(SubSeq(path, last_path + 2, Len(path)),
                         stop - last_path - 1)

\* read_file: NoFile when the file cannot be opened, else its code
NoFile == <<>>
FileCodes == {NoFile, T(TK_LET) \o V(1) \o T(CH_ASSIGN) \o N(1)}

\* vm_new_pkg and psr_new: the parser on the main function of a new package
pkg_new(toks) ==
    [Mach(toks) EXCEPT !.fns = Append(fns, [ins |-> <<>>]), !.locals = <<>>,
                       !.scopes = <<[top_level EXCEPT !.fn = Len(fns)]>>]

\* parse of the file's one statement
pkg_parse(toks) ==
    parse_code_end(parse_let(pkg_new(toks)),
                   [Frame("code", pkg_new(toks)) EXCEPT !.locals_count = 0])

\* obs.slot: the path; obs.num: the name extracted and the error returned;
\* obs.active: the packages created
RunFile ==
    /\ phase \in {"idle", "done"}
    /\ Len(fns) <= MaxPkgs
    /\ \E path \in FilePaths, code \in FileCodes :
         IF extract_pkg_name(path) = U64Ones
         THEN /\ obs' = [NoObs EXCEPT
                    !.kind = "runfile", !.slot = path, !.active = 0,
                    !.num = [name |-> extract_pkg_name(path),
                             desc |-> "invalid package name"]]
              /\ UNCHANGED <<fns, consts, psr, run>>
         ELSE IF code = NoFile
         THEN /\ obs' = [NoObs EXCEPT
                    !.kind = "runfile", !.slot = path, !.active = 0,
                    !.num = [name |-> extract_pkg_name(path),
                             desc |-> "failed to open file"]]
              /\ UNCHANGED <<fns, consts, psr, run>>
         ELSE /\ obs' = [NoObs EXCEPT
                    !.kind = "runfile", !.slot = path, !.active = 1,
                    !.num = [name |-> extract_pkg_name(path),
                             desc |-> NoErr]]
              /\ fns' = pkg_parse(code).fns
              /\ consts' = pkg_parse(code).consts
              /\ psr' = [locals |-> pkg_parse(code).locals,
                         scopes |-> pkg_parse(code).scopes, err |-> NoErr]
              /\ run' = [run EXCEPT
                    !.core = run_main([@ EXCEPT !.ip = 0,
                                                !.state = "running"],
                                      pkg_parse(code).consts,
                                      pkg_parse(code).fns[Len(fns) + 1].ins),
                    !.ref = run_main([@ EXCEPT !.ip = 0,
                                               !.state = "running"],
                                     pkg_parse(code).consts,
                                     pkg_parse(code).fns[Len(fns) + 1].ins)]
    /\ phase' = "done"
    /\ UNCHANGED <<ctl, budget, trace>>

NextFile == RunFile

SpecFile == Init /\ [][NextFile]_vars

\* the name a path stands for: its last component without the extension
LastPart(path) == SubSeq(path, rfind(path, CH_SLASH) + 2, Len(path))
NameOf(path) ==
    IF rfind(LastPart(path), CH_DOT) = -1 THEN LastPart(path)
    ELSE SubSeq(LastPart(path), 1, rfind(LastPart(path), CH_DOT))

\* C25: for a path whose name is empty the extractor returns the all-ones
\* number, and vm_run_file returns 'invalid package name' with no package
\* created and nothing compiled.
C25_EmptyNameRejected ==
    (obs.kind = "runfile" /\ NameOf(obs.slot) = <<>>) =>
        /\ obs.num.name = U64Ones
        /\ obs.num.desc = "invalid package name"
        /\ obs.active = 0
        /\ Len(fns) = 1

----------------------------------------------------------------------------
(* SpecSlot: let statements whose values are conditions of every form.     *)

SlotExprs ==
    {N(1), V(1), T(TK_TRUE),
     Bin(V(1), CH_ADD, N(1)),
     Bin(V(1), CH_LT, N(1)),
     T(CH_NOT) \o V(1),
     Bin(V(1), TK_AND, V(1)),
     Bin(Bin(V(1), CH_LT, N(1)), TK_OR, Bin(V(1), TK_EQ, N(2))),
     Bin(T(TK_TRUE), TK_AND, V(1)),
     Bin(N(1), TK_OR, V(1)),
     Bin(Par(Bin(V(1), CH_ADD, N(1))), TK_AND, V(1))}

NextSlot == ParseStart \/ ParseLet(Names, SlotExprs) \/ ParseEnd

SpecSlot == Init /\ [][NextSlot]_vars

\* C26: the slot a let stores its value into is the slot its name resolves
\* to afterwards, the index of the new local in its function scope; and
\* after the statement the next-slot counter is the number of named locals
\* of the scope.
C26_NameSlotIsValueSlot ==
    (obs.kind = "let" /\ psr.err = NoErr) =>
        /\ obs.slot = ActiveLocals - 1
        /\ psr.scopes[Len(psr.scopes)].next_slot = ActiveLocals

----------------------------------------------------------------------------
(* SpecBool: `let a = i`, `let b = j`, then `let c = E` for a condition E  *)
(* over a and b, compiled by the parser and run by vm_run.                 *)

\* conditions as trees: <<"cmp", x, binop, right>> with right a local
\* <<"loc", y>> or a number <<"num", k>>, <<"and", l, r>>, <<"or", l, r>>,
\* <<"not", e>>
Cmp(x, binop, right) == <<"cmp", x, binop, right>>
Loc(y) == <<"loc", y>>
Lit(k) == <<"num", k>>

BoolCmps ==
    {Cmp(1, binop, right) :
        binop \in {TK_EQ, TK_NEQ, CH_LT, TK_LE, CH_GT, TK_GE},
        right \in {Loc(2), Lit(2)}}

BoolAtoms == {Cmp(1, CH_LT, Loc(2)), Cmp(1, TK_EQ, Lit(2)),
              Cmp(2, TK_GE, Lit(2))}

BoolPairs == {<<k, l, r>> : k \in {"and", "or"}, l \in BoolAtoms,
                            r \in BoolAtoms}

BoolExprs ==
    BoolCmps
    \cup {<<"not", e>> : e \in BoolAtoms}
    \cup BoolPairs
    \cup {<<"not", e>> : e \in BoolPairs}
    \cup {<<k, l, r>> : k \in {"and", "or"}, l \in BoolPairs,
                        r \in {Cmp(1, TK_EQ, Lit(2))}}
    \cup {<<k, l, r>> : k \in {"and", "or"}, l \in {Cmp(1, CH_LT, Loc(2))},
                        r \in BoolPairs}
    \cup {<<k, <<"not", l>>, r>> : k \in {"and", "or"},
                                   l \in {Cmp(1, CH_LT, Loc(2))},
                                   r \in BoolAtoms}

\* the source text of a condition; && and || operands that are themselves
\* && or || are put in parentheses, and so is the operand of !
RECURSIVE BoolToks(_)
BoolToks(e) ==
    CASE e[1] = "cmp" ->
            V(e[2]) \o T(e[3]) \o
                (IF e[4][1] = "loc" THEN V(e[4][2]) ELSE N(e[4][2]))
      [] e[1] = "not" -> T(CH_NOT) \o Par(BoolToks(e[2]))
      [] OTHER ->
            (IF e[2][1] \in {"and", "or"} THEN Par(BoolToks(e[2]))
             ELSE BoolToks(e[2]))
            \o T(IF e[1] = "and" THEN TK_AND ELSE TK_OR) \o
            (IF e[3][1] \in {"and", "or"} THEN Par(BoolToks(e[3]))
             ELSE BoolToks(e[3]))

\* the truth of a condition when the local x holds the integer env[x]
RECURSIVE BoolEval(_, _)
BoolEval(e, env) ==
    CASE e[1] = "cmp" ->
            fold_rel(e[3], Num(env[e[2]]),
                     IF e[4][1] = "loc" THEN Num(env[e[4][2]])
                     ELSE Num(e[4][2]))
      [] e[1] = "not" -> ~BoolEval(e[2], env)
      [] e[1] = "and" -> BoolEval(e[2], env) /\ BoolEval(e[3], env)
      [] e[1] = "or"  -> BoolEval(e[2], env) \/ BoolEval(e[3], env)

\* vm_run on code without loops and calls: at most fuel instructions
RECURSIVE vm_exec(_, _, _, _)
vm_exec(c, k, code, fuel) ==
    IF c.state # "running" \/ fuel = 0 THEN c
    ELSE IF c.ip < 0 \/ c.ip >= Len(code)
    THEN [c EXCEPT !.state = "out of code"]
    ELSE IF bc_op(code[c.ip + 1]) \in StoreOps
    THEN vm_exec(op_store(c, k, code[c.ip + 1]), k, code, fuel - 1)
    ELSE IF bc_op(code[c.ip + 1]) \in ArithOps
    THEN vm_exec(op_arith(c, k, code[c.ip + 1]), k, code, fuel - 1)
    ELSE IF bc_op(code[c.ip + 1]) \in RelOps
    THEN vm_exec(op_rel(c, k, code[c.ip + 1]), k, code, fuel - 1)
    ELSE IF bc_op(code[c.ip + 1]) = OP_JMP
    THEN vm_exec(op_JMP(c, code[c.ip + 1]), k, code, fuel - 1)
    ELSE finish(c)

\* obs.target: the condition; obs.touched: the locals before c; obs.slot:
\* the slot the value of c is stored into
BoolLet ==
    /\ InBlock /\ Spend
    /\ Declared(1) /\ Declared(2)
    /\ \E e \in BoolExprs :
         Commit(parse_let(Mach(T(TK_LET) \o V(3) \o T(CH_ASSIGN)
                               \o BoolToks(e))),
                ctl,
                [obs EXCEPT !.kind = "bool", !.target = e,
                            !.touched = psr.locals,
                            !.slot = Len(psr.locals)],
                "parsing")

\* the end of the code and vm_run on the main function
BoolEnd ==
    /\ InBlock /\ obs.kind = "bool"
    /\ fns' = parse_code_end(Mach(<<>>), Top).fns
    /\ run' = [run EXCEPT
          !.core = vm_exec([@ EXCEPT !.ip = 0, !.state = "running"], consts,
                           parse_code_end(Mach(<<>>), Top).fns[1].ins,
                           Len(fns[1].ins) + 1)]
    /\ psr' = [locals |-> parse_code_end(Mach(<<>>), Top).locals,
               scopes |-> parse_code_end(Mach(<<>>), Top).scopes,
               err |-> NoErr]
    /\ obs' = [obs EXCEPT !.kind = "boolrun"]
    /\ ctl' = <<>>
    /\ phase' = "done"
    /\ UNCHANGED <<consts, trace, budget>>

NextBool == ParseStart \/ ParseLet(Names, {N(1), N(2)}) \/ BoolLet \/ BoolEnd

SpecBool == Init /\ [][NextBool]_vars

\* the slot of a local that was declared before c
BoolSlot(x) == (CHOOSE i \in 1 .. Len(obs.touched) : obs.touched[i] = x) - 1

\* what the locals a and b hold after the run
BoolEnv == [x \in Names |-> v2n(run.core.stk[BoolSlot(x)])[1]]

----------------------------------------------------------------------------
(* SpecDen: the interpreter with the recording dispatch table.  Each       *)
(* bytecode is recorded into the trace and then executed; obs.before is    *)
(* the stack at the entry of the trace.                                    *)

DenPool == [base |-> 0, tail |-> <<Num(3), Num(7)>>]

EntryStacks ==
    {[s \in VmSlots |-> n2v(Num(10 * (s + 1)))],
     [s \in VmSlots |-> n2v(Num(5 - s))]}

InitDen ==
    /\ fns = <<[ins |-> <<>>]>>
    /\ consts = DenPool
    /\ psr = [locals |-> <<>>, scopes |-> <<>>, err |-> NoErr]
    /\ ctl = <<>>
    /\ phase = "idle"
    /\ trace = jit_trace_new
    /\ \E stk \in EntryStacks :
         /\ obs = [NoObs EXCEPT !.kind = "entry", !.before = stk]
         /\ run = [NoRun EXCEPT !.core.stk = stk, !.core.state = "running",
                                !.dispatch = "recording"]
    /\ budget = [stmts |-> MaxRec, parses |-> 0]

\* jit_rec_X, then the interpreter's op_X
RecordedAndRun(t, c) ==
    /\ trace' = t
    /\ run' = [run EXCEPT !.core = c]
    /\ budget' = [budget EXCEPT !.stmts = @ - 1]
    /\ UNCHANGED <<fns, consts, psr, ctl, phase, obs>>

DenMOV ==
    /\ Recording
    /\ \E d \in JitSlots, s \in JitSlots :
         RecordedAndRun(jit_rec_MOV(trace, ins_new2(OP_MOV, d, s)),
                        op_store(run.core, consts, ins_new2(OP_MOV, d, s)))

DenSET_N ==
    /\ Recording
    /\ \E d \in JitSlots, c \in JitConsts :
         RecordedAndRun(jit_rec_SET_N(trace, ins_new2(OP_SET_N, d, c)),
                        op_store(run.core, consts, ins_new2(OP_SET_N, d, c)))

DenADD_LL ==
    /\ Recording
    /\ \E d \in JitSlots, l \in JitSlots, r \in JitSlots :
         RecordedAndRun(
             jit_rec_ADD_LL(trace, ins_new3(OP_ADD_LL, d, l, r)),
             op_arith(run.core, consts, ins_new3(OP_ADD_LL, d, l, r)))

DenADD_LN ==
    /\ Recording
    /\ \E d \in JitSlots, l \in JitSlots, c \in JitConsts :
         RecordedAndRun(
             jit_rec_ADD_LN(trace, ins_new3(OP_ADD_LN, d, l, c)),
             op_arith(run.core, consts, ins_new3(OP_ADD_LN, d, l, c)))

NextDen == DenMOV \/ DenSET_N \/ DenADD_LL \/ DenADD_LN

SpecDen == InitDen /\ [][NextDen]_vars

\* what an IR instruction stands for: LOAD_STACK s the value of slot s at
\* the entry of the trace, LOAD_CONST k the constant k, ADD the sum
RECURSIVE Den(_)
Den(ref) ==
    CASE ir_op(ir_at(trace, ref)) = IR_LOAD_STACK ->
            v2n(obs.before[ir_arg1(ir_at(trace, ref))])
      [] ir_op(ir_at(trace, ref)) = IR_LOAD_CONST ->
            const_at(consts, ir_arg1(ir_at(trace, ref)))
      [] OTHER -> d_add(Den(ir_arg1(ir_at(trace, ref))),
                        Den(ir_arg2(ir_at(trace, ref))))

\* C28: a slot with a recorded writer holds what the writer stands for, a
\* slot without one what it held at the entry of the trace.
C28_IrDenotesStack ==
    obs.kind = "entry" =>
        \A s \in JitSlots :
            run.core.stk[s] =
                IF trace.last_modified[s] = IR_NONE THEN obs.before[s]
                ELSE n2v(Den(trace.last_modified[s]))

----------------------------------------------------------------------------
(* SpecInsArg: expr_to_ins_arg applied to an operand between the           *)
(* statements of a compilation on the runtime of SpecConsts, whose pool    *)
(* holds more than 256 numbers.                                            *)

ArgNodes ==
    {NumNode(Num(1)), NumNode(Num(PreludeFirst)),
     NumNode(Num(PreludeFirst + 300)), ConstNode(5), ConstNode(255),
     ConstNode(256), ConstNode(511), ConstNode(600), PrimNode(PRIM_TRUE),
     NonRelocNode(0)}

\* obs.before: what the call was given and the next slot it found;
\* obs.num: the node it left; obs.slot: the argument it returned
InsArg ==
    /\ InBlock /\ Spend
    /\ \E node \in ArgNodes :
         Commit(expr_to_ins_arg(Mach(<<>>), node), ctl,
                [obs EXCEPT
                    !.kind = "insarg",
                    !.before = [n |-> node, consts |-> consts, fns |-> fns,
                                next_slot |->
                                    psr.scopes[Len(psr.scopes)].next_slot],
                    !.num = expr_to_ins_arg(Mach(<<>>), node).n,
                    !.slot = expr_to_ins_arg(Mach(<<>>), node).r],
                "parsing")

NextInsArg == ParseStart \/ ParseLet(Names, ConstExprs) \/ InsArg

SpecInsArg == InitConsts /\ [][NextInsArg]_vars

\* the pool index of the constant the call was given
ArgConst ==
    IF obs.before.n.type = NODE_CONST THEN obs.before.n.const_idx
    ELSE IF obs.before.n.type = NODE_NUM
    THEN SetMin(const_scan(consts, obs.before.n.num))
    ELSE -1

\* C29: for a constant of pool index 256 or more, expr_to_ins_arg emits one
\* SET_N of that constant into the slot that was the next free one, takes
\* that slot, and returns it.
C29_FarConstMaterialised ==
    (obs.kind = "insarg" /\ psr.err = NoErr /\ ArgConst >= 256) =>
        /\ Len(CurCode) = Len(obs.before.fns[1].ins) + 1
        /\ CurCode[Len(CurCode)] =
               ins_new2(OP_SET_N, obs.before.next_slot, ArgConst)
        /\ obs.slot = obs.before.next_slot
        /\ psr.scopes[Len(psr.scopes)].next_slot = obs.before.next_slot + 1

----------------------------------------------------------------------------
(* SpecLists: the jump lists that conditions and if statements leave       *)
(* pending.  Two conditions are parsed one after the other as expression   *)
(* statements, which leave the lists of their nodes unpatched, and a list  *)
(* of the first is merged with a list of the second.                       *)

ListConds ==
    {BoolToks(e) : e \in BoolPairs \cup {<<"not", p>> : p \in BoolPairs}}
    \cup {BoolToks(<<k, <<"and", Cmp(1, CH_LT, Loc(2)), Cmp(1, TK_EQ, Lit(2))>>,
                     Cmp(2, TK_GE, Lit(2))>>) : k \in {"and", "or"}}
    \cup {BoolToks(<<k, Cmp(1, CH_LT, Loc(2)),
                     <<"or", Cmp(1, TK_EQ, Lit(2)), Cmp(2, TK_GE, Lit(2))>>>>) :
              k \in {"and", "or"}}
    \cup {V(1), Bin(V(1), TK_AND, V(2)), Bin(V(1), TK_OR, V(2)),
          Bin(T(TK_TRUE), TK_OR, V(1)), T(CH_NOT) \o V(1),
          Bin(T(CH_NOT) \o V(1), TK_AND, Bin(V(2), TK_EQ, N(1)))}

\* obs.num: the node parse_expr returned; obs.before: the node of the
\* condition before it
ListExpr ==
    /\ InBlock /\ obs.kind \in {"let", "cond"}
    /\ obs.kind = "let" => budget.stmts > 0
    /\ Declared(1) /\ Declared(2)
    /\ \E c \in ListConds :
         Commit(parse_expr(Mach(Par(c))), ctl,
                [obs EXCEPT !.kind = IF obs.kind = "let" THEN "cond"
                                     ELSE "cond2",
                            !.before = obs.num,
                            !.num = parse_expr(Mach(Par(c))).n],
                "parsing")
    /\ budget' = [budget EXCEPT !.stmts = 0]

\* the members of the list that starts at head; a link that does not lead
\* to a smaller index ends the walk
RECURSIVE ListEntries(_, _)
ListEntries(m, head) ==
    IF head < 0 \/ head >= ins_count(m) THEN {}
    ELSE IF jmp_follow(m, head) >= head THEN {head}
    ELSE {head} \cup ListEntries(m, jmp_follow(m, head))

\* a chain: every member holds a JMP and links to a smaller index, the
\* last one to -1
IsChain(m, head) ==
    /\ head >= -1 /\ head < ins_count(m)
    /\ \A j \in ListEntries(m, head) :
          /\ ins_op(ins_at(m, j)) = OP_JMP
          /\ jmp_follow(m, j) < j
          /\ jmp_follow(m, j) >= -1

\* obs.jmp and obs.target: the lists merged, the older one first;
\* obs.touched: their members before the merge; obs.slot: the head returned
ListMerge ==
    /\ InBlock /\ obs.kind = "cond2"
    /\ obs.before.type = NODE_JMP /\ obs.num.type = NODE_JMP
    /\ \E left \in {obs.before.true_list, obs.before.false_list},
          right \in {obs.num.true_list, obs.num.false_list} :
         Commit(jmp_list_merge(Mach(<<>>), left, right), ctl,
                [obs EXCEPT !.kind = "merge", !.jmp = left, !.target = right,
                            !.touched = ListEntries(Mach(<<>>), left)
                                        \cup ListEntries(Mach(<<>>), right),
                            !.slot = jmp_list_merge(Mach(<<>>), left, right).r],
                "parsing")
    /\ UNCHANGED budget

NextLists ==
    \/ ParseStart
    \/ ParseLet(Names, {N(1)})
    \/ ListExpr
    \/ ListMerge
    \/ ParseIf(ListConds)
    \/ EndIf
    \/ EndIfElseif(ListConds)
    \/ EndIfElse
    \/ EndElse

SpecLists == Init /\ [][NextLists]_vars

\* C31: the true and false lists of the node a condition leaves, and the
\* lists of every if statement that is open, are chains; a merge returns the
\* head of the more recent list, and the list it returns is a chain whose
\* members are those of the two lists.
C31_ListsAreChains ==
    /\ (obs.kind \in {"cond", "cond2"} /\ psr.err = NoErr
           /\ obs.num.type = NODE_JMP) =>
           /\ IsChain(Mach(<<>>), obs.num.true_list)
           /\ IsChain(Mach(<<>>), obs.num.false_list)
    /\ (phase = "parsing" /\ psr.err = NoErr) =>
           \A i \in 1 .. Len(ctl) :
               /\ IsChain(Mach(<<>>), ctl[i].jmp_head)
               /\ IsChain(Mach(<<>>), ctl[i].false_list)
    /\ (obs.kind = "merge" /\ psr.err = NoErr) =>
           /\ obs.slot = IF obs.target # -1 THEN obs.target ELSE obs.jmp
           /\ IsChain(Mach(<<>>), obs.slot)
           /\ ListEntries(Mach(<<>>), obs.slot) = obs.touched

\* two lists of two members each were merged
C31_Witness ==
    /\ obs.kind = "merge" /\ psr.err = NoErr
    /\ obs.jmp # -1 /\ obs.target # -1
    /\ Cardinality(obs.touched) >= 4

----------------------------------------------------------------------------
(* SpecFree: the temporaries of nested expressions.  The values of let     *)
(* statements are built from operands in parentheses, so that both         *)
(* operands of an operator can hold a temporary.                           *)

FreeAtoms == {V(1), N(1), T(TK_TRUE)}
FreeOps == {CH_ADD, CH_SUB, TK_EQ, CH_LT, TK_AND}
FreeInner == {Bin(x, op, y) : x \in {V(1), N(1)}, op \in FreeOps,
                              y \in FreeAtoms}
FreeExprs ==
    FreeAtoms \cup FreeInner
    \cup {Bin(Par(x), op, y) : x \in FreeInner, op \in FreeOps,
                               y \in FreeAtoms}
    \cup {Bin(x, op, Par(y)) : x \in FreeAtoms, op \in FreeOps,
                               y \in FreeInner}
    \cup {Bin(Par(x), op, Par(y)) : x \in FreeInner, op \in FreeOps,
                                    y \in FreeInner}

\* the last statement of the code: a let whose value is a nested
\* expression; obs.num: the tokens of the value
FreeLet ==
    /\ InBlock /\ budget.stmts > 0 /\ Declared(1)
    /\ \E e \in FreeExprs :
         Commit(parse_let(Mach(T(TK_LET) \o V(2) \o T(CH_ASSIGN) \o e)), ctl,
                [Observe("free", Mach(<<>>)) EXCEPT !.num = e], "parsing")
    /\ budget' = [budget EXCEPT !.stmts = 0]

NextFree ==
    ParseStart \/ ParseLet({1}, {N(1), T(TK_TRUE)}) \/ FreeLet \/ ParseEnd

SpecFree == Init /\ [][NextFree]_vars

\* C32: no expression makes the assertion of expr_free_node fail: a
\* temporary that is released holds the slot below the next-slot counter.
C32_FreedTopDown ==
    obs.kind = "free" => psr.err # AssertSlot

----------------------------------------------------------------------------
(* SpecNames: the names of one function scope.  Locals are declared by     *)
(* let, as the parameters of a function definition and as the name of a    *)
(* function definition, with names that may already be live.               *)

MaxParams == 2

ParamLists == UNION {[1 .. k -> Names] : k \in 0 .. MaxParams}

\* the tokens of a parameter list
ParamToks(params) ==
    [i \in 1 .. (IF params = <<>> THEN 0 ELSE 2 * Len(params) - 1) |->
         IF i % 2 = 1 THEN TkIdent(params[(i + 1) \div 2]) ELSE Tk(CH_COMMA)]

\* fn name(params) {
ParseFnNamed ==
    /\ InBlock /\ Spend /\ Len(ctl) <= MaxDepth
    /\ \E name \in Names, params \in ParamLists :
         PushFn(parse_fn_head(Mach(T(TK_FN) \o V(name) \o T(CH_LPAREN)
                                   \o ParamToks(params) \o T(CH_RPAREN)
                                   \o T(CH_LBRACE))))

NextNames ==
    \/ ParseStart
    \/ ParseLet(Names, {N(1)})
    \/ ParseFnNamed
    \/ EndFn
    \/ ParseEnd

SpecNames == Init /\ [][NextNames]_vars

\* the locals of the i-th function scope: from its first local up to the
\* first local of the scope inside it
ScopeLocals(i) ==
    (psr.scopes[i].first_local + 1) ..
        (IF i < Len(psr.scopes) THEN psr.scopes[i + 1].first_local
         ELSE Len(psr.locals))

\* C33: while no error is raised, the live locals of one function scope,
\* whether declared by let, as parameters or as the name of a function
\* definition, have names that differ from each other.
C33_NamesDiffer ==
    psr.err = NoErr =>
        \A i \in 1 .. Len(psr.scopes) :
            \A a, b \in ScopeLocals(i) :
                psr.locals[a] = psr.locals[b] => a = b

\* C34: in SpecConsts, a statement fails with 'too many constants' only
\* over a number that the pool does not hold, whatever the size of the pool
\* (obs.num is the number expr_discharge was given).
C34_InternedNeverFails ==
    (obs.kind \in {"let", "expr"} /\ psr.err = "too many constants") =>
        const_scan(consts, obs.num) = {}

----------------------------------------------------------------------------
(* SpecAssign: the assignment statements `x op= e` for each of the tokens  *)
(* that parse_assign_or_expr hands to parse_assign.                        *)

AssignTks ==
    {TK_ADD_ASSIGN, TK_SUB_ASSIGN, TK_MUL_ASSIGN, TK_DIV_ASSIGN, TK_MOD_ASSIGN}
AssignValues ==
    {N(1), N(2), V(1), V(2), Bin(V(1), CH_MUL, V(2)), Bin(V(2), CH_ADD, N(1))}

\* obs.target: the assignment token; obs.slot: the slot of x; obs.jmp: the
\* number of instructions before the statement
AssignOp ==
    /\ InBlock /\ Spend /\ Declared(1) /\ Declared(2)
    /\ \E x \in Names, tk \in AssignTks, e \in AssignValues :
         Commit(parse_assign_or_expr(Mach(V(x) \o T(tk) \o e)), ctl,
                [obs EXCEPT !.kind = "assign", !.target = tk,
                            !.slot = find_local(Mach(<<>>), 0, x),
                            !.jmp = ins_count(Mach(<<>>))],
                "parsing")

NextAssign ==
    ParseStart \/ ParseLet(Names, {N(1), N(2)}) \/ AssignOp \/ ParseEnd

SpecAssign == Init /\ [][NextAssign]_vars

\* the opcodes of the operator a compound assignment token stands for: the
\* bytecode has none for %
AssignOpcodes(tk) ==
    IF augmented_tk(tk) = 0 THEN {}
    ELSE {binop_opcode(augmented_tk(tk)) + k : k \in 0 .. 2}

\* C35: the last instruction a compound assignment to x emits is an
\* arithmetic instruction of the token's operator whose destination and
\* left operand are the slot of x.
C35_CompoundIsArith ==
    (obs.kind = "assign" /\ psr.err = NoErr) =>
        /\ Len(CurCode) > obs.jmp
        /\ ins_op(CurCode[Len(CurCode)]) \in AssignOpcodes(obs.target)
        /\ CurCode[Len(CurCode)][2] = obs.slot
        /\ CurCode[Len(CurCode)][3] = obs.slot

----------------------------------------------------------------------------
(* SpecUnreach: one binary operation for each token that binop_prec gives  *)
(* a precedence, on operands of every type.                                *)

BinopTks == {tk \in 0 .. TK_FALSE : binop_prec(tk) # -1}
BinopOperands ==
    {V(1), N(1), T(TK_TRUE), Par(Bin(V(1), CH_ADD, N(1))),
     Par(Bin(V(1), TK_AND, V(1)))}

\* the last statement of the code: let b = x binop y; obs.target: binop
BinopLet ==
    /\ InBlock /\ budget.stmts > 0 /\ Declared(1)
    /\ \E x \in BinopOperands, binop \in BinopTks, y \in BinopOperands :
         Commit(parse_let(Mach(T(TK_LET) \o V(2) \o T(CH_ASSIGN)
                               \o Bin(x, binop, y))), ctl,
                [Observe("binop", Mach(<<>>)) EXCEPT !.target = binop],
                "parsing")
    /\ budget' = [budget EXCEPT !.stmts = 0]

NextUnreach ==
    ParseStart \/ ParseLet({1}, {N(1), T(TK_TRUE)}) \/ BinopLet \/ ParseEnd

SpecUnreach == Init /\ [][NextUnreach]_vars

\* C36: no binary operation on a token that binop_prec accepts reaches an
\* assert(false) of the parser.
C36_NoUnreachable ==
    obs.kind = "binop" => psr.err # AssertFail

----------------------------------------------------------------------------
(* SpecBlock: what parse_block saves on entry and restores on exit, for    *)
(* the blocks of if, else, loop, while and fn, with let statements whose   *)
(* values do and do not use a temporary.                                   *)

BlockExprs == {N(1), Bin(T(TK_TRUE), TK_AND, V(1))}
BlockConds == {V(1), Bin(V(1), TK_EQ, N(1))}

NextBlock ==
    \/ ParseStart
    \/ ParseLet(Names, BlockExprs)
    \/ ParseIf(BlockConds)
    \/ EndIf
    \/ EndIfElseif(BlockConds)
    \/ EndIfElse
    \/ EndElse
    \/ ParseLoop
    \/ EndLoop
    \/ ParseWhile(BlockConds)
    \/ EndWhile
    \/ ParseFn(FnNames, 1, {0, 1})
    \/ EndFn
    \/ ParseEnd

SpecBlock == Init /\ [][NextBlock]_vars

NextSlotOf(p) == p.scopes[Len(p.scopes)].next_slot

\* a step that enters a block
BlockEntered ==
    /\ psr'.err = NoErr /\ ctl' # <<>>
    /\ \/ Len(ctl') > Len(ctl)
       \/ Len(ctl') = Len(ctl) /\ ctl # <<>> /\ ctl'[Len(ctl')] # Top

\* a step that leaves the block of an if, else, loop or while and parses
\* nothing after it but `}`, or `} else {`
BlockLeft ==
    /\ psr'.err = NoErr /\ ctl # <<>>
    /\ Top.kind \in {"if", "else", "loop", "while"}
    /\ \/ Len(ctl') = Len(ctl) - 1
       \/ /\ Len(ctl') = Len(ctl) /\ Top.kind = "if"
          /\ ctl'[Len(ctl')].kind = "else"

\* a step that leaves the block of a function
FnLeft ==
    /\ psr'.err = NoErr /\ ctl # <<>> /\ Top.kind = "fn"
    /\ Len(ctl') = Len(ctl) - 1

\* C37: the frame of a block holds the locals count and the next-slot
\* counter of its entry; leaving the block puts both back, which drops the
\* names declared inside and nothing else, and a let that follows stores
\* into the slot the counter was put back to; leaving a function drops its
\* parameters and the names declared inside.
C37_BlockRestores ==
    [][/\ BlockEntered =>
            /\ ctl'[Len(ctl')].locals_count = Len(psr'.locals)
            /\ ctl'[Len(ctl')].next_slot = NextSlotOf(psr')
       /\ BlockLeft =>
            /\ psr'.locals = SubSeqTo(psr.locals, Top.locals_count)
            /\ NextSlotOf(psr') = Top.next_slot
            /\ Len(psr'.scopes) = Len(psr.scopes)
       /\ FnLeft =>
            psr'.locals = Append(SubSeqTo(psr.locals,
                                          psr.scopes[Len(psr.scopes)].first_local),
                                 Top.fn_name)
       /\ (obs.kind \in {"endif", "endloop", "endwhile"} /\ obs'.kind = "let"
              /\ psr.err = NoErr /\ psr'.err = NoErr
              /\ ~ \E i \in 1 .. Len(CurCode') - Len(CurCode) :
                     ins_op(CurCode'[Len(CurCode) + i]) = OP_JMP) =>
            obs'.slot = NextSlotOf(psr)]_vars

\* the if, loop or while that was left had declared a name, which is gone
C37_Witness ==
    /\ obs.kind \in {"endif", "endloop", "endwhile"} /\ psr.err = NoErr
    /\ obs.active > ActiveLocals

----------------------------------------------------------------------------
(* SpecFrame: vm_run on the programs of SpecVm and on one program for each *)
(* store and arithmetic instruction, with each slot as its destination.    *)

FrameIns ==
    {ins_new2(OP_MOV, d, x) : d \in VmSlots, x \in VmSlots}
    \cup {ins_new2(OP_SET_N, d, x) : d \in VmSlots, x \in 0 .. 3}
    \cup {ins_new2(OP_SET_P, d, x) : d \in VmSlots, x \in 0 .. 2}
    \cup {ins_new2(OP_SET_F, d, 0) : d \in VmSlots}
    \cup {ins_new3(op, d, x, y) : op \in OP_ADD_LL .. OP_DIV_NL, d \in VmSlots,
                                  x \in 1 .. 2, y \in 1 .. 2}
    \cup {ins_new2(OP_NEG, d, x) : d \in VmSlots, x \in VmSlots}

\* slots 0, 1 and 2 hold 3, 1 and 100 when ins is executed
FrameProgram(ins) ==
    <<[ins |-> <<ins_new2(OP_SET_N, 0, 2), ins_new2(OP_SET_N, 1, 1),
                 ins_new2(OP_SET_N, 2, 3), ins, ins_new3(BC_RET, 0, 0, 0)>>]>>

FramePrograms == Programs \cup {FrameProgram(ins) : ins \in FrameIns}

InitFrame ==
    /\ fns \in FramePrograms
    /\ consts = [base |-> 0, tail |-> VmPool]
    /\ psr = [locals |-> <<>>, scopes |-> <<>>, err |-> NoErr]
    /\ ctl = <<>>
    /\ phase = "idle"
    /\ obs = NoObs
    /\ trace = NoTrace
    /\ budget = [stmts |-> 0, parses |-> 0]
    /\ run = NoRun

SpecFrame == InitFrame /\ [][NextVm]_vars

\* the instruction that was executed last ran to its end
Executed(ops) ==
    /\ bc_op(run.last) \in ops
    /\ run.core.state \notin Unimplemented

\* C38: a store or arithmetic instruction leaves every slot but the one
\* its arg1 names as it was and goes on with the next instruction; a
\* relational instruction, a JMP and a LOOP leave every slot as it was; the
\* constants and the bytecode stay what they were.
C38_InterpreterFrame ==
    /\ Executed(StoreOps \cup ArithOps) =>
           /\ \A s \in VmSlots \ {bc_arg1(run.last)} :
                  run.core.stk[s] = run.prev.core.stk[s]
           /\ run.core.ip = run.prev.core.ip + 1
    /\ Executed(RelOps \cup {OP_JMP, BC_LOOP}) =>
           run.core.stk = run.prev.core.stk
    /\ consts = [base |-> 0, tail |-> VmPool]
    /\ fns \in FramePrograms

\* an arithmetic instruction has changed the slot of its arg1, which is not
\* slot 0
C38_Witness ==
    /\ Executed(ArithOps) /\ bc_arg1(run.last) = 2
    /\ run.core.stk[2] # run.prev.core.stk[2]

----------------------------------------------------------------------------
(* SpecLex: lex_ident on words.  A source text is a sequence of character  *)
(* codes that ends with NUL; the words are the reserved words and words    *)
(* that differ from one of them in one place.                              *)

is_decimal_digit(ch) == ch >= 48 /\ ch <= 57
is_ident_start(ch) ==
    (ch >= 97 /\ ch <= 122) \/ (ch >= 65 /\ ch <= 90) \/ ch = 95
is_ident_continue(ch) == is_ident_start(ch) \/ is_decimal_digit(ch)

\* the keywords and keyword_tks of lex_ident
keywords ==
    << <<108, 101, 116>>, <<105, 102>>, <<101, 108, 115, 101>>,
       <<101, 108, 115, 101, 105, 102>>, <<108, 111, 111, 112>>,
       <<119, 104, 105, 108, 101>>, <<102, 111, 114>> >>
keyword_tks ==
    <<TK_LET, TK_IF, TK_ELSE, TK_ELSEIF, TK_LOOP, TK_WHILE, TK_FOR>>

\* lex_ident on the word that starts at the cursor: the token and the cursor
\* after it
lex_ident(code, cursor) ==
    LET end == SetMin({i \in cursor .. (Len(code) - 1) :
                          ~ is_ident_continue(code[i + 1])})
        candidate == SubSeq(code, cursor + 1, end)
        found == {i \in 1 .. Len(keywords) : candidate = keywords[i]}
    IN  [cursor |-> end, length |-> end - cursor,
         type |-> IF found # {} THEN keyword_tks[SetMin(found)] ELSE TK_IDENT,
         ident_hash |-> IF found # {} THEN U64Zero
                        ELSE hash_string(candidate, end - cursor)]

\* the reserved words of the language: let, if, else, elseif, loop, while,
\* for, fn, true, false, nil
ReservedWords ==
    {keywords[i] : i \in 1 .. Len(keywords)}
    \cup {<<102, 110>>, <<116, 114, 117, 101>>, <<102, 97, 108, 115, 101>>,
          <<110, 105, 108>>}

ReservedTk(word) ==
    CASE word = <<102, 110>> -> TK_FN
      [] word = <<116, 114, 117, 101>> -> TK_TRUE
      [] word = <<102, 97, 108, 115, 101>> -> TK_FALSE
      [] word = <<110, 105, 108>> -> TK_NIL
      [] OTHER -> keyword_tks[CHOOSE i \in 1 .. Len(keywords) :
                                  word = keywords[i]]

\* _, x, s and 1
WordChars == {95, 120, 115, 49}
Words ==
    ReservedWords
    \cup {w \o <<ch>> : w \in ReservedWords, ch \in WordChars}
    \cup {<<ch>> \o w : w \in ReservedWords, ch \in WordChars \ {49}}
    \cup {SubSeq(w, 1, Len(w) - 1) : w \in ReservedWords}
    \cup {[w EXCEPT ![1] = @ - 32] : w \in ReservedWords}

\* NUL, a space and `(`
WordEnds == {0, 32, 40}

\* lex_next at the start of a word; obs.num: the word; obs.target: the
\* token's type; obs.slot: its length; obs.touched: its hash
LexWord ==
    /\ \E w \in Words, ch \in WordEnds :
         obs' = [obs EXCEPT !.kind = "word", !.num = w,
                     !.target = lex_ident(w \o <<ch, 0>>, 0).type,
                     !.slot = lex_ident(w \o <<ch, 0>>, 0).length,
                     !.touched = lex_ident(w \o <<ch, 0>>, 0).ident_hash,
                     !.jmp = ch]
    /\ UNCHANGED <<fns, consts, psr, ctl, phase, trace, run, budget>>

SpecLex == Init /\ [][LexWord]_vars

\* C39: a reserved word is lexed as its keyword token and every other word
\* as an identifier, the token being as long as the word.
C39_KeywordsExact ==
    obs.kind = "word" =>
        /\ obs.slot = Len(obs.num)
        /\ obs.target = IF obs.num \in ReservedWords THEN ReservedTk(obs.num)
                        ELSE TK_IDENT
====
